---- MODULE Spec2Model ----
(***************************************************************************)
(* GrandRiverAnalytics: the Flask CMS (src/app.py), its session and CSRF   *)
(* layer (src/utils/auth.py) and its sqlite persistence (src/utils/db.py). *)
(*                                                                         *)
(* Text is modelled as a sequence of one-character strings, so that the    *)
(* string code (strip, lower, re.sub, split, join, concatenation) is       *)
(* computed character by character as the source computes it.  SQL NULL    *)
(* and Python None are the one-element sequence NULL, whose element is not *)
(* a character.  Wall-clock time is the integer `now` (seconds).           *)
(***************************************************************************)
EXTENDS Integers, Sequences, FiniteSets, TLC

(* ------------------------------ bounds -------------------------------- *)

\* How many of the seed posts of seed_posts() the model inserts.
NumSeeds == 3

\* How many writes (INSERT, UPDATE, DELETE of a row) the requests make.
MaxWrites == 2

\* How many times the clock advances.
MaxTicks == 1

\* How many workers serve requests side by side.
MaxWorkers == 2

\* The longest text typed as a title or slug input.
MaxSlugLen == 3

\* How many notes the editor has saved on top of the seeds in the tables
\* the listings are read from.
MaxNotes == 19

\* How many notes the editor has saved on top of the seeds in the tables
\* the exporter reads.
MaxExportNotes == 9

(* ------------------------- program constants -------------------------- *)

CSRF_TTL_SECONDS == 3600

NULL == <<"NULL">>

NoneTok == "None"

(* ------------------------------- text --------------------------------- *)

UpperChars == <<"A","B","C","D","E","F","G","H","I","J","K","L","M","N","O","P","Q","R","S","T","U","V","W","X","Y","Z">>

LowerChars == <<"a","b","c","d","e","f","g","h","i","j","k","l","m","n","o","p","q","r","s","t","u","v","w","x","y","z">>

DigitChars == <<"0","1","2","3","4","5","6","7","8","9">>

Range(s) == { s[i] : i \in DOMAIN s }

\* Python's str.isspace / regex \s on the ASCII characters of the model.
WhiteSpace == {" ", "\t", "\n", "\r", "\f"}

\* Python truthiness of an optional text: None and "" are falsy.
Truthy(s) == s # NULL /\ s # <<>>

\* `x or None`
OrNone(s) == IF Truthy(s) THEN s ELSE NULL

\* str.lower() on one character.
LowerChar(c) ==
  IF \E i \in DOMAIN UpperChars : UpperChars[i] = c
  THEN LowerChars[CHOOSE i \in DOMAIN UpperChars : UpperChars[i] = c]
  ELSE c

\* str.lower()
Lower(s) == [i \in DOMAIN s |-> LowerChar(s[i])]

\* str.lstrip(chars) / str.rstrip(chars) / str.strip(chars)
RECURSIVE LStrip(_, _)
LStrip(s, chars) ==
  IF s = <<>> THEN <<>>
  ELSE IF Head(s) \in chars THEN LStrip(Tail(s), chars) ELSE s

RECURSIVE RStrip(_, _)
RStrip(s, chars) ==
  IF s = <<>> THEN <<>>
  ELSE IF s[Len(s)] \in chars THEN RStrip(SubSeq(s, 1, Len(s) - 1), chars) ELSE s

StripChars(s, chars) == RStrip(LStrip(s, chars), chars)

\* str.strip()
Strip(s) == StripChars(s, WhiteSpace)

\* re.sub(r"[^...]", "", s): keep only the characters of `keep`.
KeepOnly(s, keep) == SelectSeq(s, LAMBDA c : c \in keep)

\* re.sub(r"[set]+", rep, s): every maximal run of characters of `set`
\* becomes one copy of `rep`.
RECURSIVE CollapseRuns(_, _, _)
CollapseRuns(s, set, rep) ==
  IF s = <<>> THEN <<>>
  ELSE IF Head(s) \in set
       THEN rep \o CollapseRuns(LStrip(s, set), set, rep)
       ELSE <<Head(s)>> \o CollapseRuns(Tail(s), set, rep)

\* str.split(sep) for a one-character separator: always at least one part.
RECURSIVE Split(_, _)
Split(s, sep) ==
  IF \A i \in DOMAIN s : s[i] # sep THEN <<s>>
  ELSE LET k == CHOOSE i \in DOMAIN s : s[i] = sep /\ \A j \in 1..(i - 1) : s[j] # sep
       IN  <<SubSeq(s, 1, k - 1)>> \o Split(SubSeq(s, k + 1, Len(s)), sep)

\* sep.join(parts)
RECURSIVE Join(_, _)
Join(parts, sep) ==
  IF parts = <<>> THEN <<>>
  ELSE IF Len(parts) = 1 THEN parts[1]
  ELSE parts[1] \o sep \o Join(Tail(parts), sep)

\* str(n) / f"{n}" for n >= 0.
RECURSIVE IntToStr(_)
IntToStr(n) ==
  IF n < 10 THEN <<DigitChars[n + 1]>>
  ELSE IntToStr(n \div 10) \o <<DigitChars[(n % 10) + 1]>>

\* s[:n]
Prefix(s, n) == SubSeq(s, 1, IF Len(s) < n THEN Len(s) ELSE n)

(* --------------------------- pure functions --------------------------- *)

SlugKeep == Range(LowerChars) \cup Range(DigitChars) \cup WhiteSpace \cup {"-"}

SlugSeparators == WhiteSpace \cup {"_", "-"}

\* slugify() without its final strip("-").
slugify_NoTrim(value) ==
  CollapseRuns(KeepOnly(Lower(Strip(value)), SlugKeep), SlugSeparators, <<"-">>)

slugify(value) ==
  LET v1 == Lower(Strip(value))
      v2 == KeepOnly(v1, SlugKeep)
      v3 == CollapseRuns(v2, SlugSeparators, <<"-">>)
  IN  StripChars(v3, {"-"})

HeroLight == <<"l","i","g","h","t">>

HeroSlate == <<"s","l","a","t","e">>

HeroMidnight == <<"m","i","d","n","i","g","h","t">>

AllowedHeroStyles == {HeroLight, HeroSlate, HeroMidnight}

\* The normalisation without the test against the allowed styles.
normalize_hero_style_AnyValue(value) ==
  IF ~Truthy(value) THEN HeroLight ELSE Lower(Strip(value))

normalize_hero_style(value) ==
  IF ~Truthy(value) THEN HeroLight
  ELSE LET normalized == Lower(Strip(value))
       IN  IF normalized \in AllowedHeroStyles THEN normalized ELSE HeroLight

serialize_post(row) == [row EXCEPT !.hero_style = normalize_hero_style(row.hero_style)]

\* datetime.utcnow().isoformat(): the clock as text (decimal seconds).
IsoFormat(t) == IntToStr(t)

(* ----------------------------- seed data ------------------------------ *)

\* The posts list of seed_posts().  Long prose (excerpt, content, cover
\* URL, quote, summary points) is abbreviated to its first words.
AllSeedPosts ==
  <<
    [
       title |-> <<"A","A","P","L",":"," ","S","e","r","v","i","c","e","s"," ","M","o","m","e","n","t","u","m"," ","a","n","d"," ","V","a","l","u","a","t","i","o","n"," ","F","l","o","o","r","s">>,
       slug |-> <<"a","a","p","l","-","s","e","r","v","i","c","e","s","-","m","o","m","e","n","t","u","m">>,
       excerpt |-> <<"A","s","s","e","s","s","i","n","g">>,
       content |-> <<"<","p",">","A","p","p","l","e","<","/","p",">">>,
       cover_url |-> <<"p","h","o","t","o","-","1","5","2","0","6","0","7","1","6","2","5","1","3">>,
       tags |-> <<"L","a","r","g","e","-","C","a","p",","," ","T","e","c","h">>,
       publish_date |-> <<"2","0","2","4","-","0","1","-","1","5","T","1","2",":","0","0",":","0","0","Z">>,
       published |-> 1,
       meta_title |-> NULL,
       meta_description |-> NULL,
       hero_kicker |-> <<"D","e","e","p"," ","D","i","v","e">>,
       hero_style |-> <<"m","i","d","n","i","g","h","t">>,
       highlight_quote |-> <<"S","e","r","v","i","c","e","s"," ","m","i","x">>,
       summary_points |-> <<"S","e","r","v","i","c","e","s"," ","A","R","R","\n","H","a","r","d","w","a","r","e">>,
       cta_label |-> <<"R","e","a","d"," ","f","u","l","l"," ","t","h","e","s","i","s">>,
       cta_url |-> <<"/","p","o","s","t","/","a","a","p","l","-","s","e","r","v","i","c","e","s","-","m","o","m","e","n","t","u","m">>,
       featured |-> 1 ],
    [
       title |-> <<"J","P","M",":"," ","N","I","I"," ","T","r","a","j","e","c","t","o","r","y"," ","a","n","d"," ","C","r","e","d","i","t"," ","N","o","r","m","a","l","i","z","a","t","i","o","n">>,
       slug |-> <<"j","p","m","-","n","i","i","-","t","r","a","j","e","c","t","o","r","y">>,
       excerpt |-> <<"P","a","r","s","i","n","g">>,
       content |-> <<"<","p",">","J","P","M","o","r","g","a","n","<","/","p",">">>,
       cover_url |-> <<"p","h","o","t","o","-","1","4","5","4","1","6","5","2","0","5","7","4","4">>,
       tags |-> <<"L","a","r","g","e","-","C","a","p",","," ","F","i","n","a","n","c","i","a","l","s">>,
       publish_date |-> <<"2","0","2","4","-","0","1","-","2","2","T","1","2",":","0","0",":","0","0","Z">>,
       published |-> 1,
       meta_title |-> NULL,
       meta_description |-> NULL,
       hero_kicker |-> <<"B","a","n","k","i","n","g">>,
       hero_style |-> <<"s","l","a","t","e">>,
       highlight_quote |-> NULL,
       summary_points |-> <<"D","e","p","o","s","i","t"," ","m","i","x","\n","C","r","e","d","i","t">>,
       cta_label |-> NULL,
       cta_url |-> NULL,
       featured |-> 0 ],
    [
       title |-> <<"M","S","F","T",":"," ","C","o","p","i","l","o","t"," ","M","o","n","e","t","i","z","a","t","i","o","n"," ","P","a","t","h","w","a","y","s">>,
       slug |-> <<"m","s","f","t","-","c","o","p","i","l","o","t","-","m","o","n","e","t","i","z","a","t","i","o","n">>,
       excerpt |-> <<"E","x","a","m","i","n","i","n","g">>,
       content |-> <<"<","p",">","M","i","c","r","o","s","o","f","t","<","/","p",">">>,
       cover_url |-> <<"p","h","o","t","o","-","1","5","1","7","4","3","0","8","1","6","0","4","5">>,
       tags |-> <<"L","a","r","g","e","-","C","a","p",","," ","T","e","c","h">>,
       publish_date |-> <<"2","0","2","4","-","0","2","-","0","1","T","1","2",":","0","0",":","0","0","Z">>,
       published |-> 1,
       meta_title |-> NULL,
       meta_description |-> NULL,
       hero_kicker |-> <<"S","o","f","t","w","a","r","e">>,
       hero_style |-> NULL,
       highlight_quote |-> NULL,
       summary_points |-> <<"C","o","p","i","l","o","t"," ","A","R","P","U","\n","A","z","u","r","e"," ","A","I">>,
       cta_label |-> NULL,
       cta_url |-> NULL,
       featured |-> 0 ],
    [
       title |-> <<"X","O","M",":"," ","C","a","p","e","x"," ","D","i","s","c","i","p","l","i","n","e"," ","v","s","."," ","P","r","i","c","e"," ","D","e","c","k">>,
       slug |-> <<"x","o","m","-","c","a","p","e","x","-","d","i","s","c","i","p","l","i","n","e">>,
       excerpt |-> <<"E","v","a","l","u","a","t","i","n","g">>,
       content |-> <<"<","p",">","E","x","x","o","n","<","/","p",">">>,
       cover_url |-> <<"p","h","o","t","o","-","1","5","0","9","3","9","5","1","7","6","0","4","7">>,
       tags |-> <<"E","n","e","r","g","y",","," ","L","a","r","g","e","-","C","a","p">>,
       publish_date |-> <<"2","0","2","4","-","0","2","-","0","8","T","1","2",":","0","0",":","0","0","Z">>,
       published |-> 1,
       meta_title |-> NULL,
       meta_description |-> NULL,
       hero_kicker |-> <<"E","n","e","r","g","y">>,
       hero_style |-> <<"m","i","d","n","i","g","h","t">>,
       highlight_quote |-> NULL,
       summary_points |-> NULL,
       cta_label |-> NULL,
       cta_url |-> NULL,
       featured |-> 0 ],
    [
       title |-> <<"C","O","S","T",":"," ","T","r","a","f","f","i","c"," ","R","e","s","i","l","i","e","n","c","e"," ","a","n","d"," ","M","i","x">>,
       slug |-> <<"c","o","s","t","-","t","r","a","f","f","i","c","-","r","e","s","i","l","i","e","n","c","e">>,
       excerpt |-> <<"U","n","d","e","r","s","t","a","n","d","i","n","g">>,
       content |-> <<"<","p",">","C","o","s","t","c","o","<","/","p",">">>,
       cover_url |-> <<"p","h","o","t","o","-","1","5","1","5","1","6","9","0","6","7","8","6","5">>,
       tags |-> <<"C","o","n","s","u","m","e","r",","," ","L","a","r","g","e","-","C","a","p">>,
       publish_date |-> <<"2","0","2","4","-","0","2","-","1","5","T","1","2",":","0","0",":","0","0","Z">>,
       published |-> 1,
       meta_title |-> NULL,
       meta_description |-> NULL,
       hero_kicker |-> <<"C","o","n","s","u","m","e","r">>,
       hero_style |-> <<"s","l","a","t","e">>,
       highlight_quote |-> NULL,
       summary_points |-> NULL,
       cta_label |-> NULL,
       cta_url |-> NULL,
       featured |-> 0 ]
  >>

SeedCount == IF NumSeeds < Len(AllSeedPosts) THEN NumSeeds ELSE Len(AllSeedPosts)

SeedPosts == SubSeq(AllSeedPosts, 1, SeedCount)

\* The singleton settings row init_db() inserts (text abbreviated).
DefaultSettings ==
  [ id |-> 1,
    site_name |-> <<"G","R","A">>,
    site_description |-> <<"r","e","s","e","a","r","c","h">>,
    base_url |-> <<"h","t","t","p","s",":","/","/","e","x","a","m","p","l","e",".","c","o","m">> ]

NoSettings == [ id |-> 0, site_name |-> <<>>, site_description |-> <<>>, base_url |-> <<>> ]

(* ------------------------------- state -------------------------------- *)

VARIABLES
  posts,     \* the posts table: id -> row, over the ids that exist
  nextId,    \* the next AUTOINCREMENT id (sqlite_sequence + 1)
  settings,  \* the settings table's row, NoSettings before init_db()
  started,   \* create_app() has run: the routes are served
  session,   \* the browser session: admin_authenticated, _csrf_token, _csrf_ts
  now,       \* the wall clock, in seconds
  ticks,     \* how often the clock advanced
  writes,    \* how many row writes the requests have made
  pending,   \* per worker: the request it holds between slug lookup and write
  last,      \* the request being answered and its response, NoRequest once sent
  exporter,  \* the build_static.py process: where it is in export_routes()
  outdir     \* the files under OUTPUT_DIR, as paths relative to it

vars == <<posts, nextId, settings, started, session, now, ticks, writes, pending, last,
          exporter, outdir>>

Workers == 1..MaxWorkers

\* A worker that is not between the slug lookup and the write of a request.
NoPending == [ kind |-> "none" ]

\* The post ids a request may name: every id handed out so far, and 0,
\* which is never a row's id.
IdInputs == 0..(nextId - 1)

\* No export is running (build_static.py was not started).
NoExport == [ pc |-> "idle", routes |-> <<>>, requested |-> <<>> ]

NoRequest ==
  [ route |-> "none", method |-> "none", status |-> 0, loc |-> "none",
    id |-> 0, flash |-> "", body |-> <<>> ]

\* A response; `body` is filled in by the views whose listing is modelled.
Response(route, method, status, loc, id, flash) ==
  [ route |-> route, method |-> method, status |-> status, loc |-> loc,
    id |-> id, flash |-> flash, body |-> <<>> ]

(* ---------------------------- persistence ----------------------------- *)

\* The lookup without its `AND id != ?`: any row with the slug counts.
SlugUsedByAny(tbl, slug, id) ==
  \E i \in DOMAIN tbl : tbl[i].slug = slug

\* SELECT id FROM posts WHERE slug = ? AND id != ?
SlugUsedByOther(tbl, slug, id) ==
  \E i \in DOMAIN tbl : tbl[i].slug = slug /\ i # id

\* SELECT id FROM posts WHERE slug = ?
SlugUsed(tbl, slug) == SlugUsedByOther(tbl, slug, 0)

\* The text columns CREATE TABLE posts declares NOT NULL.
NotNullColumns == {"title", "slug", "excerpt", "content", "created_at", "updated_at"}

\* The table without UNIQUE on slug: only NOT NULL is enforced.
ConstraintsHold_NotNullOnly(tbl, id, row) ==
  \A f \in NotNullColumns \cap DOMAIN row : row[f] # NULL

\* The constraints of CREATE TABLE posts on the columns a statement writes
\* to the row `id`: slug UNIQUE, and NOT NULL.  A statement that breaks one
\* raises sqlite3.IntegrityError.
ConstraintsHold(tbl, id, row) ==
  /\ ~SlugUsedByOther(tbl, row.slug, id)
  /\ \A f \in NotNullColumns \cap DOMAIN row : row[f] # NULL

\* execute("INSERT INTO posts ..."): the table with the row under the next id.
InsertRow(tbl, id, row) ==
  [ i \in DOMAIN tbl \cup {id} |->
      IF i = id THEN [ f \in DOMAIN row \cup {"id"} |-> IF f = "id" THEN id ELSE row[f] ]
      ELSE tbl[i] ]

\* execute("UPDATE posts SET ... WHERE id = ?"): no row matched, no change.
UpdateRow(tbl, id, row) ==
  IF id \in DOMAIN tbl
  THEN [ tbl EXCEPT ![id] =
           [ f \in DOMAIN tbl[id] |-> IF f \in DOMAIN row THEN row[f] ELSE tbl[id][f] ] ]
  ELSE tbl

\* A DELETE whose WHERE clause is id >= ?.
DeleteRow_FromId(tbl, id) == [ i \in { j \in DOMAIN tbl : j < id } |-> tbl[i] ]

\* execute("DELETE FROM posts WHERE id = ?")
DeleteRow(tbl, id) == [ i \in DOMAIN tbl \ {id} |-> tbl[i] ]

\* The rows seed_posts() inserts at time t, under the ids from `first` on.
RECURSIVE SeedInto(_, _, _, _)
SeedInto(tbl, first, rows, t) ==
  IF rows = <<>> THEN tbl
  ELSE LET row == [ f \in DOMAIN Head(rows) \cup {"created_at", "updated_at"} |->
                      IF f \in {"created_at", "updated_at"} THEN IsoFormat(t)
                      ELSE Head(rows)[f] ]
       IN  SeedInto(InsertRow(tbl, first, row), first + 1, Tail(rows), t)

\* seed_posts() without the test of the row count.
seed_posts_Always(tbl, first, t) == SeedInto(tbl, first, SeedPosts, t)

\* seed_posts(): only into an empty table.
seed_posts(tbl, first, t) ==
  IF Cardinality(DOMAIN tbl) > 0 THEN tbl ELSE SeedInto(tbl, first, SeedPosts, t)

EmptyTable == <<>>

(* --------------------------- auth / session --------------------------- *)

\* secrets.token_urlsafe(32): the values a fresh token may take.
TokenValues == {"tokA"}

\* request.form.get("csrf_token"): missing (None), empty, a token the
\* server never issued, or one it may issue.
FormTokens == {NoneTok, "", "forged"} \cup TokenValues

\* The configured admin password and a wrong one.
AdminPassword == "researchadmin"

Passwords == {AdminPassword, "wrong"}

\* A verification that accepts every password.
verify_password_Any(password) == TRUE

\* check_password_hash(generate_password_hash(p), password)
verify_password(password) == password = AdminPassword

EmptySession == [ auth |-> FALSE, token |-> NoneTok, ts |-> 0 ]

\* `not token` for a token: None and "" are falsy.
NoToken(tok) == tok = NoneTok \/ tok = ""

\* A generator that issues a new token and timestamp on every call.
generate_csrf_token_Always(sess, fresh, t) ==
  [ sess EXCEPT !.token = fresh, !.ts = t ]

generate_csrf_token(sess, fresh, t) ==
  IF NoToken(sess.token) THEN [ sess EXCEPT !.token = fresh, !.ts = t ] ELSE sess

\* The validation without the age test.
validate_csrf_token_NoExpiry(sess, sent, t) ==
  IF NoToken(sent) \/ NoToken(sess.token) THEN FALSE
  ELSE IF sent # sess.token THEN FALSE
  ELSE TRUE

\* The validation with `>=` for `>` in the age test.
validate_csrf_token_StrictAge(sess, sent, t) ==
  IF NoToken(sent) \/ NoToken(sess.token) THEN FALSE
  ELSE IF sent # sess.token THEN FALSE
  ELSE IF t - sess.ts >= CSRF_TTL_SECONDS THEN FALSE
  ELSE TRUE

validate_csrf_token(sess, sent, t) ==
  IF NoToken(sent) \/ NoToken(sess.token) THEN FALSE
  ELSE IF sent # sess.token THEN FALSE
  ELSE IF t - sess.ts > CSRF_TTL_SECONDS THEN FALSE
  ELSE TRUE

\* csrf_protect(): TRUE when the request goes on to its view, FALSE when
\* it is aborted with the 400 response.
csrf_protect(method, sess, sent, t) ==
  ~(method \in {"POST", "PUT", "DELETE"} /\ ~validate_csrf_token(sess, sent, t))

\* A view without the login_required decorator.
login_required_Off(sess) == TRUE

\* login_required: TRUE when the wrapped view is called.
login_required(sess) == sess.auth

\* render_template(): a template may call the csrf_token() global that
\* inject_globals() hands it, which is generate_csrf_token.
RenderedSessions(sess) ==
  {sess} \cup { generate_csrf_token(sess, fresh, now) : fresh \in TokenValues }

CsrfAbort(route, id) ==
  /\ last' = Response(route, "POST", 400, "none", id, "error:Your session expired. Please try again.")
  /\ UNCHANGED <<posts, nextId, settings, started, session, now, ticks, writes, pending, exporter, outdir>>

LoginRedirect(route, method, id) ==
  /\ last' = Response(route, method, 302, "admin_login", id, "error:Please log in to continue.")
  /\ UNCHANGED <<posts, nextId, settings, started, session, now, ticks, writes, pending, exporter, outdir>>

NotFound(route, method, id) ==
  /\ last' = Response(route, method, 404, "none", id, "")
  /\ UNCHANGED <<posts, nextId, settings, started, session, now, ticks, writes, pending, exporter, outdir>>

\* A view that ends in render_template(): 200, and the session the
\* template leaves behind.
Render(route, method, id, flash) ==
  /\ last' = Response(route, method, 200, "none", id, flash)
  /\ session' \in RenderedSessions(session)
  /\ UNCHANGED <<posts, nextId, settings, started, now, ticks, writes, pending, exporter, outdir>>

(* ------------------------- start-up and clock ------------------------- *)

\* No request is being answered: one worker serves one request to
\* completion before the next one starts.
Idle == last = NoRequest

\* The routes are served once create_app() has returned.
Serving == started /\ Idle

Init ==
  /\ posts = EmptyTable
  /\ nextId = 1
  /\ settings = NoSettings
  /\ started = FALSE
  /\ session = EmptySession
  /\ now = 0
  /\ ticks = 0
  /\ writes = 0
  /\ pending = [ w \in Workers |-> NoPending ]
  /\ last = NoRequest
  /\ exporter = NoExport
  /\ outdir = {}

\* create_app(): init_db() creates the tables, inserts the settings row
\* unless there is one, and seeds the posts table when it is empty.
InitDb ==
  /\ Idle
  /\ posts' = seed_posts(posts, nextId, now)
  /\ nextId' = IF Cardinality(DOMAIN posts) = 0 THEN nextId + SeedCount ELSE nextId
  /\ settings' = IF settings = NoSettings THEN DefaultSettings ELSE settings
  /\ started' = TRUE
  /\ last' = NoRequest
  /\ UNCHANGED <<session, now, ticks, writes, pending, exporter, outdir>>

\* The clock advances, by the token's lifetime or by a second more.
TickSteps == {CSRF_TTL_SECONDS, CSRF_TTL_SECONDS + 1}

Tick ==
  /\ Idle
  /\ ticks < MaxTicks
  /\ \E d \in TickSteps : now' = now + d
  /\ ticks' = ticks + 1
  /\ last' = NoRequest
  /\ UNCHANGED <<posts, nextId, settings, started, session, writes, pending, exporter, outdir>>

(* ------------------------------- forms -------------------------------- *)

\* request.form of the post editor with every text field left empty, no
\* hero_style, no featured checkbox and no action (which reads as "draft").
EmptyForm ==
  [ title |-> <<>>, slug |-> <<>>, excerpt |-> <<>>, content |-> <<>>,
    cover_url |-> <<>>, tags |-> <<>>, publish_date |-> <<>>, action |-> "draft",
    hero_kicker |-> <<>>, hero_style |-> NULL, highlight_quote |-> <<>>,
    summary_points |-> <<>>, cta_label |-> <<>>, cta_url |-> <<>>,
    meta_title |-> <<>>, meta_description |-> <<>>, featured |-> NULL ]

\* Publish, featured, slug derived from the title, untrimmed inputs.
FormPublish ==
  [ EmptyForm EXCEPT
      !.title = <<" ","Q","1"," ","N","o","t","e"," ">>, !.excerpt = <<"e","x">>, !.content = <<"<","p",">","c","<","/","p",">">>,
      !.tags = <<" ","x",",",",","y"," ">>, !.action = "publish", !.hero_style = <<" ","S","l","a","t","e"," ">>,
      !.featured = <<"o","n">>, !.cta_label = <<" ","G","o"," ">> ]

\* Draft under an explicit slug, the slug of the first seed post.
FormSeedSlug ==
  [ EmptyForm EXCEPT
      !.title = <<"T","2">>, !.slug = <<"A","A","P","L"," ","S","e","r","v","i","c","e","s"," ","M","o","m","e","n","t","u","m">>, !.excerpt = <<"e","2">>,
      !.content = <<"c","2">>, !.publish_date = <<"2","0","2","5","-","0","1","-","0","1">> ]

\* Save and preview, the same derived slug as FormPublish, an unknown hero style.
FormPreview ==
  [ EmptyForm EXCEPT
      !.title = <<"Q","1","_"," ","n","o","t","e","!">>, !.excerpt = <<"e","3">>, !.content = <<"c","3">>,
      !.action = "preview", !.hero_style = <<"n","e","o","n">> ]

\* A whitespace-only excerpt.
FormMissing ==
  [ EmptyForm EXCEPT
      !.title = <<"T","4">>, !.excerpt = <<" "," ">>, !.content = <<"c","4">>, !.action = "publish" ]

\* A title no slug can be derived from.
FormNoSlug ==
  [ EmptyForm EXCEPT
      !.title = <<"?","!">>, !.excerpt = <<"e","5">>, !.content = <<"c","5">>, !.action = "publish" ]

Forms == {FormPublish, FormSeedSlug, FormPreview, FormMissing, FormNoSlug}

(* ---------------------------- save handler ---------------------------- *)

\* ", ".join([tag.strip() for tag in value.split(",") if tag.strip()])
NormalizeTags(value) ==
  LET parts   == Split(value, ",")
      trimmed == [ i \in DOMAIN parts |-> Strip(parts[i]) ]
  IN  Join(SelectSeq(trimmed, LAMBDA p : p # <<>>), <<",", " ">>)

\* The publish date handle_post_save() resolves: the input, else the
\* existing post's, else the current time.
ResolvePublishDate(form, tbl, existingId, t) ==
  IF Strip(form.publish_date) # <<>> THEN Strip(form.publish_date)
  ELSE IF existingId \in DOMAIN tbl /\ Truthy(tbl[existingId].publish_date)
       THEN tbl[existingId].publish_date
       ELSE IsoFormat(t)

\* The values with a published flag that a save as draft never takes back.
SaveValues_KeepPublished(form, tbl, existingId, t) ==
  [ title            |-> Strip(form.title),
    slug             |-> slugify(IF Strip(form.slug) # <<>> THEN Strip(form.slug) ELSE Strip(form.title)),
    excerpt          |-> Strip(form.excerpt),
    content          |-> Strip(form.content),
    cover_url        |-> OrNone(Strip(form.cover_url)),
    tags             |-> OrNone(NormalizeTags(form.tags)),
    published        |-> IF form.action = "publish" \/ (existingId \in DOMAIN tbl /\ tbl[existingId].published = 1)
                         THEN 1 ELSE 0,
    updated_at       |-> IsoFormat(t),
    publish_date     |-> ResolvePublishDate(form, tbl, existingId, t),
    meta_title       |-> OrNone(Strip(form.meta_title)),
    meta_description |-> OrNone(Strip(form.meta_description)),
    hero_kicker      |-> OrNone(Strip(form.hero_kicker)),
    hero_style       |-> OrNone(normalize_hero_style(form.hero_style)),
    highlight_quote  |-> OrNone(Strip(form.highlight_quote)),
    summary_points   |-> OrNone(Strip(form.summary_points)),
    cta_label        |-> OrNone(Strip(form.cta_label)),
    cta_url          |-> OrNone(Strip(form.cta_url)),
    featured         |-> IF Truthy(form.featured) THEN 1 ELSE 0 ]

\* The column values handle_post_save() writes (created_at is written by
\* the INSERT only).
SaveValues(form, tbl, existingId, t) ==
  [ title            |-> Strip(form.title),
    slug             |-> slugify(IF Strip(form.slug) # <<>> THEN Strip(form.slug) ELSE Strip(form.title)),
    excerpt          |-> Strip(form.excerpt),
    content          |-> Strip(form.content),
    cover_url        |-> OrNone(Strip(form.cover_url)),
    tags             |-> OrNone(NormalizeTags(form.tags)),
    published        |-> IF form.action = "publish" THEN 1 ELSE 0,
    updated_at       |-> IsoFormat(t),
    publish_date     |-> ResolvePublishDate(form, tbl, existingId, t),
    meta_title       |-> OrNone(Strip(form.meta_title)),
    meta_description |-> OrNone(Strip(form.meta_description)),
    hero_kicker      |-> OrNone(Strip(form.hero_kicker)),
    hero_style       |-> OrNone(normalize_hero_style(form.hero_style)),
    highlight_quote  |-> OrNone(Strip(form.highlight_quote)),
    summary_points   |-> OrNone(Strip(form.summary_points)),
    cta_label        |-> OrNone(Strip(form.cta_label)),
    cta_url          |-> OrNone(Strip(form.cta_url)),
    featured         |-> IF Truthy(form.featured) THEN 1 ELSE 0 ]

\* The validation without the required-field test.
SaveVerdict_NoRequired(form, tbl, existingId, t) ==
  LET v == SaveValues(form, tbl, existingId, t)
  IN  IF v.slug = <<>> THEN "noslug"
      ELSE IF SlugUsedByOther(tbl, v.slug, existingId) THEN "collision"
      ELSE "ok"

\* The validation of handle_post_save(): "ok", or the reason it redirects
\* back to the form.  existingId is 0 for a new post.
SaveVerdict(form, tbl, existingId, t) ==
  LET v == SaveValues(form, tbl, existingId, t)
  IN  IF v.title = <<>> \/ v.excerpt = <<>> \/ v.content = <<>> THEN "missing"
      ELSE IF v.slug = <<>> THEN "noslug"
      ELSE IF SlugUsedByOther(tbl, v.slug, existingId) THEN "collision"
      ELSE "ok"

SaveFlash(verdict) ==
  CASE verdict = "missing"   -> "error:Title, excerpt, and content are required."
    [] verdict = "noslug"    -> "error:Unable to generate a slug. Please adjust the title."
    [] verdict = "collision" -> "error:Slug already in use."
    [] OTHER                 -> ""

\* The row of the INSERT: the values, and created_at, which like
\* updated_at is `now`.
InsertValues(v) ==
  [ f \in DOMAIN v \cup {"created_at"} |-> IF f = "created_at" THEN v.updated_at ELSE v[f] ]

\* The write of handle_post_save() and its response: the UPDATE of the
\* existing post or the INSERT of a new one, each a 500 with the table
\* untouched when the statement raises sqlite3.IntegrityError.
SaveWrite(route, form, v, existingId) ==
  LET row    == IF existingId # 0 THEN v ELSE InsertValues(v)
      id     == IF existingId # 0 THEN existingId ELSE nextId
      target == IF form.action = "preview" THEN "admin_preview" ELSE "admin_edit"
  IN  /\ IF ConstraintsHold(posts, id, row)
         THEN /\ writes < MaxWrites
              /\ posts' = IF existingId # 0 THEN UpdateRow(posts, id, row)
                          ELSE InsertRow(posts, id, row)
              /\ nextId' = IF existingId # 0 THEN nextId ELSE nextId + 1
              /\ writes' = writes + 1
              /\ last' = Response(route, "POST", 302, target, id,
                                  IF existingId # 0 THEN "success:Post updated."
                                  ELSE "success:Post created.")
         ELSE /\ last' = Response(route, "POST", 500, "none", existingId, "")
              /\ UNCHANGED <<posts, nextId, writes, exporter, outdir>>

\* handle_post_save() without the test of the derived slug.
handle_post_save_NoSlugCheck(route, form, existingId) ==
  LET verdict == SaveVerdict(form, posts, existingId, now)
      v       == SaveValues(form, posts, existingId, now)
  IN  /\ IF verdict \notin {"ok", "noslug"}
         THEN /\ last' = Response(route, "POST", 302, "self", existingId, SaveFlash(verdict))
              /\ UNCHANGED <<posts, nextId, writes>>
         ELSE SaveWrite(route, form, v, existingId)
      /\ UNCHANGED <<settings, started, session, now, ticks, pending, exporter, outdir>>

\* handle_post_save(existing), from the form to the response.
handle_post_save(route, form, existingId) ==
  LET verdict == SaveVerdict(form, posts, existingId, now)
      v       == SaveValues(form, posts, existingId, now)
  IN  /\ IF verdict # "ok"
         THEN /\ last' = Response(route, "POST", 302, "self", existingId, SaveFlash(verdict))
              /\ UNCHANGED <<posts, nextId, writes, exporter, outdir>>
         ELSE SaveWrite(route, form, v, existingId)
      /\ UNCHANGED <<settings, started, session, now, ticks, pending, exporter, outdir>>

(* --------------------------- public routes ---------------------------- *)

RECURSIVE Ascending(_)
Ascending(S) ==
  IF S = {} THEN <<>>
  ELSE LET m == CHOOSE x \in S : \A y \in S : x <= y
       IN  <<m>> \o Ascending(S \ {m})

\* get_settings(): the settings row (init_db() has inserted it).
get_settings == settings

PostPath == <<"/","p","o","s","t","/">>

StaticPaths == << <<"/">>, <<"/","t","e","a","m">>, <<"/","c","o","n","t","a","c","t">>, <<"/","b","l","o","g">> >>

\* f"{settings['base_url']}/post/{slug}"
PostUrl(slug) == get_settings.base_url \o PostPath \o slug

\* SELECT ... FROM posts without the WHERE clause.
AllIds(tbl) == Ascending(DOMAIN tbl)

\* SELECT ... FROM posts WHERE published = 1, in rowid order.
PublishedIds(tbl) == Ascending({ i \in DOMAIN tbl : tbl[i].published = 1 })

\* The urls list sitemap() builds: the four static routes, then one entry
\* per published post.
sitemap(tbl, t) ==
  [ k \in 1..Len(StaticPaths) |->
      [ loc |-> get_settings.base_url \o StaticPaths[k], lastmod |-> Prefix(IsoFormat(t), 10) ] ]
  \o
  LET ids == PublishedIds(tbl)
  IN  [ k \in 1..Len(ids) |->
        [ loc     |-> PostUrl(tbl[ids[k]].slug),
          lastmod |-> Prefix(IF Truthy(tbl[ids[k]].updated_at) THEN tbl[ids[k]].updated_at
                             ELSE IsoFormat(t), 10) ] ]

\* The routes that render a template and whose listing is not modelled.
PageRoutes == {"home", "team", "contact", "admin_unavailable"}

\* The routes that build their response without a template and whose
\* content is not modelled.
RawRoutes == {"sitemap", "robots", "health"}

PublicPage(route) ==
  /\ Serving
  /\ route \in PageRoutes
  /\ Render(route, "GET", 0, "")

RawPage(route) ==
  /\ Serving
  /\ route \in RawRoutes
  /\ last' = Response(route, "GET", 200, "none", 0, "")
  /\ UNCHANGED <<posts, nextId, settings, started, session, now, ticks, writes, pending, exporter, outdir>>

\* The ASCII characters from the blank (32) to the underscore (95), in
\* code order.
AsciiChars ==
  << " ", "!", "\"", "#", "$", "%", "&", "'", "(", ")", "*", "+", ",", "-", ".", "/",
     "0", "1", "2", "3", "4", "5", "6", "7", "8", "9", ":", ";", "<", "=", ">", "?",
     "@", "A", "B", "C", "D", "E", "F", "G", "H", "I", "J", "K", "L", "M", "N", "O",
     "P", "Q", "R", "S", "T", "U", "V", "W", "X", "Y", "Z", "[", "\\", "]", "^", "_" >>

\* The byte of a character: the lower-case letters start at 97.
CharCode(c) ==
  IF c \in Range(LowerChars)
  THEN 96 + CHOOSE k \in DOMAIN LowerChars : LowerChars[k] = c
  ELSE 31 + CHOOSE k \in DOMAIN AsciiChars : AsciiChars[k] = c

\* a < b under SQLite's BINARY collation (memcmp, a proper prefix first).
RECURSIVE TextLess(_, _)
TextLess(a, b) ==
  IF b = <<>> THEN FALSE
  ELSE IF a = <<>> THEN TRUE
  ELSE IF Head(a) = Head(b) THEN TextLess(Tail(a), Tail(b))
  ELSE CharCode(Head(a)) < CharCode(Head(b))

\* COALESCE(publish_date, created_at)
SortKey(row) == IF row.publish_date # NULL THEN row.publish_date ELSE row.created_at

\* ORDER BY COALESCE(publish_date, created_at) DESC over the rows `ids`:
\* every order the statement may return, rows with equal keys in any order.
RECURSIVE NewestFirst(_, _)
NewestFirst(tbl, ids) ==
  IF ids = {} THEN { <<>> }
  ELSE LET top   == CHOOSE i \in ids :
                      \A j \in ids : ~TextLess(SortKey(tbl[i]), SortKey(tbl[j]))
           first == { i \in ids : SortKey(tbl[i]) = SortKey(tbl[top]) }
       IN  UNION { { <<i>> \o rest : rest \in NewestFirst(tbl, ids \ {i}) } : i \in first }

\* The rows SELECT ... WHERE published = 1 selects, without the WHERE.
AllRows(tbl) == DOMAIN tbl

\* The rows SELECT ... WHERE published = 1 selects.
PublishedRows(tbl) == { i \in DOMAIN tbl : tbl[i].published = 1 }

\* LIMIT limit OFFSET offset
LimitOffset_NoOffset(order, limit, offset) ==
  SubSeq(order, 1, IF Len(order) < limit THEN Len(order) ELSE limit)

LimitOffset(order, limit, offset) ==
  SubSeq(order, offset + 1, IF Len(order) < offset + limit THEN Len(order) ELSE offset + limit)

\* LIMIT 15 of rss_feed().
FeedLimit == 15

\* per_page of blog_index().
PerPage == 10

\* One <item> of the feed.
FeedItem(post) ==
  [ title       |-> post.title,
    link        |-> PostUrl(post.slug),
    guid        |-> PostUrl(post.slug),
    pubDate     |-> IF Truthy(post.publish_date) THEN post.publish_date ELSE post.created_at,
    description |-> post.excerpt ]

\* rss_feed(): the items of the newest FeedLimit published posts.
rss_feed ==
  /\ Serving
  /\ \E order \in NewestFirst(posts, PublishedRows(posts)) :
       LET rows == LimitOffset(order, FeedLimit, 0)
       IN  last' = [ Response("rss_feed", "GET", 200, "none", 0, "") EXCEPT
                       !.body = [ k \in DOMAIN rows |-> FeedItem(serialize_post(posts[rows[k]])) ] ]
  /\ UNCHANGED <<posts, nextId, settings, started, session, now, ticks, writes, pending, exporter, outdir>>

\* The values of ?page= a request for /blog carries.
PageInputs == {-1, 0, 1, 2, 3}

\* max(1, int(request.args.get("page", 1)))
ClampPage(page) == IF page < 1 THEN 1 ELSE page

\* max(1, math.ceil(total / per_page))
TotalPages(total) ==
  IF total = 0 THEN 1 ELSE (total + PerPage - 1) \div PerPage

\* blog_index(): the posts, page and total_pages handed to the template.
blog_index(page) ==
  LET p      == ClampPage(page)
      offset == (p - 1) * PerPage
      total  == Cardinality(PublishedRows(posts))
  IN  /\ Serving
      /\ \E order \in NewestFirst(posts, PublishedRows(posts)) :
           LET rows == LimitOffset(order, PerPage, offset)
           IN  last' = [ Response("blog_index", "GET", 200, "none", 0, "") EXCEPT
                           !.body = [ posts       |-> [ k \in DOMAIN rows |-> serialize_post(posts[rows[k]]) ],
                                      page        |-> p,
                                      total_pages |-> TotalPages(total) ] ]
      /\ session' \in RenderedSessions(session)
      /\ UNCHANGED <<posts, nextId, settings, started, now, ticks, writes, pending, exporter, outdir>>

\* The slugs a request for /post/<slug> may name: every stored one, and
\* one no post has.
SlugInputs == { posts[i].slug : i \in DOMAIN posts } \cup { <<"n","o","n","e">> }

\* SELECT * FROM posts WHERE slug = ? (slug is UNIQUE: at most one row).
RowsBySlug(tbl, slug) == { i \in DOMAIN tbl : tbl[i].slug = slug }

\* post_detail() without the draft test: every stored post is rendered.
post_detail_NoDraftCheck(slug) ==
  /\ Serving
  /\ IF RowsBySlug(posts, slug) = {} THEN NotFound("post_detail", "GET", 0)
     ELSE LET post == serialize_post(posts[CHOOSE i \in RowsBySlug(posts, slug) : TRUE])
          IN  Render("post_detail", "GET", post.id, "")

post_detail(slug) ==
  /\ Serving
  /\ IF RowsBySlug(posts, slug) = {} THEN NotFound("post_detail", "GET", 0)
     ELSE LET post == serialize_post(posts[CHOOSE i \in RowsBySlug(posts, slug) : TRUE])
          IN  IF post.published = 0 /\ ~session.auth
              THEN NotFound("post_detail", "GET", post.id)
              ELSE Render("post_detail", "GET", post.id, "")

\* contact(): POST with the honeypot filled is a 400; any other POST and
\* GET render the page.
contact_post(sent, honeypot) ==
  /\ Serving
  /\ IF ~csrf_protect("POST", session, sent, now) THEN CsrfAbort("contact", 0)
     ELSE IF Strip(honeypot) # <<>>
     THEN /\ last' = Response("contact", "POST", 400, "none", 0, "")
          /\ UNCHANGED <<posts, nextId, settings, started, session, now, ticks, writes, pending, exporter, outdir>>
     ELSE Render("contact", "POST", 0, "contact")

(* ---------------------------- admin routes ---------------------------- *)

admin_login_get ==
  /\ Serving
  /\ IF session.auth
     THEN /\ last' = Response("admin_login", "GET", 302, "admin_dashboard", 0, "")
          /\ UNCHANGED <<posts, nextId, settings, started, session, now, ticks, writes, pending, exporter, outdir>>
     ELSE Render("admin_login", "GET", 0, "")

admin_login_post(password, sent) ==
  /\ Serving
  /\ IF ~csrf_protect("POST", session, sent, now) THEN CsrfAbort("admin_login", 0)
     ELSE IF session.auth
     THEN /\ last' = Response("admin_login", "POST", 302, "admin_dashboard", 0, "")
          /\ UNCHANGED <<posts, nextId, settings, started, session, now, ticks, writes, pending, exporter, outdir>>
     ELSE IF verify_password(password)
     THEN /\ session' = [ session EXCEPT !.auth = TRUE ]
          /\ last' = Response("admin_login", "POST", 302, "admin_dashboard", 0, "success:Welcome back.")
          /\ UNCHANGED <<posts, nextId, settings, started, now, ticks, writes, pending, exporter, outdir>>
     ELSE Render("admin_login", "POST", 0, "error:Invalid credentials.")

\* A logout that empties the session (session.clear()).
admin_logout_ClearSession ==
  /\ Serving
  /\ session' = EmptySession
  /\ last' = Response("admin_logout", "GET", 302, "admin_login", 0, "success:You have been logged out.")
  /\ UNCHANGED <<posts, nextId, settings, started, now, ticks, writes, pending, exporter, outdir>>

admin_logout ==
  /\ Serving
  /\ session' = [ session EXCEPT !.auth = FALSE ]
  /\ last' = Response("admin_logout", "GET", 302, "admin_login", 0, "success:You have been logged out.")
  /\ UNCHANGED <<posts, nextId, settings, started, now, ticks, writes, pending, exporter, outdir>>

admin_dashboard ==
  /\ Serving
  /\ IF ~login_required(session) THEN LoginRedirect("admin_dashboard", "GET", 0)
     ELSE Render("admin_dashboard", "GET", 0, "")

admin_new_get ==
  /\ Serving
  /\ IF ~login_required(session) THEN LoginRedirect("admin_new", "GET", 0)
     ELSE Render("admin_new", "GET", 0, "")

admin_new_post(form, sent) ==
  /\ Serving
  /\ IF ~csrf_protect("POST", session, sent, now) THEN CsrfAbort("admin_new", 0)
     ELSE IF ~login_required(session) THEN LoginRedirect("admin_new", "POST", 0)
     ELSE handle_post_save("admin_new", form, 0)

\* admin_edit for GET without `if not row: abort(404)`: serialize_post(None)
\* raises, a 500.
admin_edit_get_NoCheck(id) ==
  /\ Serving
  /\ IF ~login_required(session) THEN LoginRedirect("admin_edit", "GET", id)
     ELSE IF id \notin DOMAIN posts
     THEN /\ last' = Response("admin_edit", "GET", 500, "none", id, "")
          /\ UNCHANGED <<posts, nextId, settings, started, session, now, ticks, writes, pending, exporter, outdir>>
     ELSE Render("admin_edit", "GET", id, "")

admin_edit_get(id) ==
  /\ Serving
  /\ IF ~login_required(session) THEN LoginRedirect("admin_edit", "GET", id)
     ELSE IF id \notin DOMAIN posts THEN NotFound("admin_edit", "GET", id)
     ELSE Render("admin_edit", "GET", id, "")

admin_edit_post(id, form, sent) ==
  /\ Serving
  /\ IF ~csrf_protect("POST", session, sent, now) THEN CsrfAbort("admin_edit", id)
     ELSE IF ~login_required(session) THEN LoginRedirect("admin_edit", "POST", id)
     ELSE IF id \notin DOMAIN posts THEN NotFound("admin_edit", "POST", id)
     ELSE handle_post_save("admin_edit", form, id)

admin_delete(id, sent) ==
  /\ Serving
  /\ IF ~csrf_protect("POST", session, sent, now) THEN CsrfAbort("admin_delete", id)
     ELSE IF ~login_required(session) THEN LoginRedirect("admin_delete", "POST", id)
     ELSE /\ id \in DOMAIN posts => writes < MaxWrites
          /\ posts' = DeleteRow(posts, id)
          /\ writes' = IF id \in DOMAIN posts THEN writes + 1 ELSE writes
          /\ last' = Response("admin_delete", "POST", 302, "admin_dashboard", id, "success:Post deleted.")
          /\ UNCHANGED <<nextId, settings, started, session, now, ticks, pending, exporter, outdir>>

CopySuffix == <<"-","c","o","p","y">>

TitleCopySuffix == <<" ","(","C","o","p","y",")">>

\* The while loop of admin_duplicate(): the candidate it stops at.
RECURSIVE FreeSlugFrom(_, _, _, _)
FreeSlugFrom(tbl, base_slug, candidate_slug, suffix) ==
  IF SlugUsed(tbl, candidate_slug)
  THEN FreeSlugFrom(tbl, base_slug, base_slug \o <<"-">> \o IntToStr(suffix), suffix + 1)
  ELSE candidate_slug

\* The loop with its suffix counter starting at 1.
DuplicateSlug_FromOne(tbl, slug) == FreeSlugFrom(tbl, slug \o CopySuffix, slug \o CopySuffix, 1)

DuplicateSlug(tbl, slug) == FreeSlugFrom(tbl, slug \o CopySuffix, slug \o CopySuffix, 2)

\* The copy's row with the source's featured flag carried over.
DuplicateValues_KeepFeatured(post, candidate_slug, t) ==
  [ f \in DOMAIN post \ {"id"} |->
      CASE f = "title"        -> post.title \o TitleCopySuffix
        [] f = "slug"         -> candidate_slug
        [] f = "published"    -> 0
        [] f \in {"created_at", "updated_at"} -> IsoFormat(t)
        [] f = "publish_date" -> IF Truthy(post.publish_date) THEN post.publish_date ELSE IsoFormat(t)
        [] OTHER              -> post[f] ]

\* The row admin_duplicate() inserts for `post` (as serialize_post returns it).
DuplicateValues(post, candidate_slug, t) ==
  [ title            |-> post.title \o TitleCopySuffix,
    slug             |-> candidate_slug,
    excerpt          |-> post.excerpt,
    content          |-> post.content,
    cover_url        |-> post.cover_url,
    tags             |-> post.tags,
    published        |-> 0,
    created_at       |-> IsoFormat(t),
    updated_at       |-> IsoFormat(t),
    publish_date     |-> IF Truthy(post.publish_date) THEN post.publish_date ELSE IsoFormat(t),
    meta_title       |-> post.meta_title,
    meta_description |-> post.meta_description,
    hero_kicker      |-> post.hero_kicker,
    hero_style       |-> post.hero_style,
    highlight_quote  |-> post.highlight_quote,
    summary_points   |-> post.summary_points,
    cta_label        |-> post.cta_label,
    cta_url          |-> post.cta_url,
    featured         |-> 0 ]

\* The INSERT of admin_duplicate() and its response.
DuplicateWrite(srcId, row) ==
  /\ IF ConstraintsHold(posts, nextId, row)
     THEN /\ writes < MaxWrites
          /\ posts' = InsertRow(posts, nextId, row)
          /\ nextId' = nextId + 1
          /\ writes' = writes + 1
          /\ last' = Response("admin_duplicate", "POST", 302, "admin_edit", nextId, "success:Draft copied.")
     ELSE /\ last' = Response("admin_duplicate", "POST", 500, "none", srcId, "")
          /\ UNCHANGED <<posts, nextId, writes, exporter, outdir>>

admin_duplicate(id, sent) ==
  /\ Serving
  /\ IF ~csrf_protect("POST", session, sent, now) THEN CsrfAbort("admin_duplicate", id)
     ELSE IF ~login_required(session) THEN LoginRedirect("admin_duplicate", "POST", id)
     ELSE IF id \notin DOMAIN posts THEN NotFound("admin_duplicate", "POST", id)
     ELSE LET post == serialize_post(posts[id])
          IN  /\ DuplicateWrite(id, DuplicateValues(post, DuplicateSlug(posts, post.slug), now))
              /\ UNCHANGED <<settings, started, session, now, ticks, pending, exporter, outdir>>

admin_preview(id) ==
  /\ Serving
  /\ IF ~login_required(session) THEN LoginRedirect("admin_preview", "GET", id)
     ELSE IF id \notin DOMAIN posts THEN NotFound("admin_preview", "GET", id)
     ELSE Render("admin_preview", "GET", id, "")

(* ------------------------ interleaved requests ------------------------ *)

\* Workers run side by side (app.run() serves each request in its own
\* thread), and every statement execute() and query_one() run is atomic
\* in sqlite.  A save or a duplicate reads the table (the slug lookup) in
\* one step and writes it in a later one; other requests run in between.

\* admin_new / admin_edit with POST, up to the slug lookup of
\* handle_post_save(): answered at once when it does not reach the write.
save_lookup(w, id, form, sent) ==
  LET route == IF id = 0 THEN "admin_new" ELSE "admin_edit"
      v     == SaveValues(form, posts, id, now)
  IN  /\ Serving
      /\ pending[w] = NoPending
      /\ IF ~csrf_protect("POST", session, sent, now) THEN CsrfAbort(route, id)
         ELSE IF ~login_required(session) THEN LoginRedirect(route, "POST", id)
         ELSE IF id # 0 /\ id \notin DOMAIN posts THEN NotFound(route, "POST", id)
         ELSE IF SaveVerdict(form, posts, id, now) # "ok"
         THEN /\ last' = Response(route, "POST", 302, "self", id,
                                  SaveFlash(SaveVerdict(form, posts, id, now)))
              /\ UNCHANGED <<posts, nextId, settings, started, session, now, ticks, writes, pending, exporter, outdir>>
         ELSE /\ pending' = [ pending EXCEPT ![w] =
                               [ kind |-> "save", route |-> route, id |-> id, form |-> form, v |-> v ] ]
              /\ UNCHANGED <<posts, nextId, settings, started, session, now, ticks, writes, last, exporter, outdir>>

\* The rest of handle_post_save(): the write and the response.
save_write(w) ==
  /\ Idle
  /\ pending[w].kind = "save"
  /\ SaveWrite(pending[w].route, pending[w].form, pending[w].v, pending[w].id)
  /\ pending' = [ pending EXCEPT ![w] = NoPending ]
  /\ UNCHANGED <<settings, started, session, now, ticks, exporter, outdir>>

\* admin_duplicate up to the end of its while loop.
duplicate_lookup(w, id, sent) ==
  /\ Serving
  /\ pending[w] = NoPending
  /\ IF ~csrf_protect("POST", session, sent, now) THEN CsrfAbort("admin_duplicate", id)
     ELSE IF ~login_required(session) THEN LoginRedirect("admin_duplicate", "POST", id)
     ELSE IF id \notin DOMAIN posts THEN NotFound("admin_duplicate", "POST", id)
     ELSE LET post == serialize_post(posts[id])
          IN  /\ pending' = [ pending EXCEPT ![w] =
                               [ kind |-> "duplicate", id |-> id,
                                 row |-> DuplicateValues(post, DuplicateSlug(posts, post.slug), now) ] ]
              /\ UNCHANGED <<posts, nextId, settings, started, session, now, ticks, writes, last, exporter, outdir>>

\* The INSERT of admin_duplicate and the response.
duplicate_write(w) ==
  /\ Idle
  /\ pending[w].kind = "duplicate"
  /\ DuplicateWrite(pending[w].id, pending[w].row)
  /\ pending' = [ pending EXCEPT ![w] = NoPending ]
  /\ UNCHANGED <<settings, started, session, now, ticks, exporter, outdir>>

(* --------------------------- specification ---------------------------- *)

Request ==
  \/ \E route \in PageRoutes : PublicPage(route)
  \/ \E route \in RawRoutes : RawPage(route)
  \/ \E page \in PageInputs : blog_index(page)
  \/ rss_feed
  \/ \E slug \in SlugInputs : post_detail(slug)
  \/ \E sent \in FormTokens, honeypot \in {<<>>, <<"x">>} : contact_post(sent, honeypot)
  \/ admin_login_get
  \/ \E password \in Passwords, sent \in FormTokens : admin_login_post(password, sent)
  \/ admin_logout
  \/ admin_dashboard
  \/ admin_new_get
  \/ \E form \in Forms, sent \in FormTokens : admin_new_post(form, sent)
  \/ \E id \in IdInputs : admin_edit_get(id)
  \/ \E id \in IdInputs, form \in Forms, sent \in FormTokens : admin_edit_post(id, form, sent)
  \/ \E id \in IdInputs, sent \in FormTokens : admin_delete(id, sent)
  \/ \E id \in IdInputs, sent \in FormTokens : admin_duplicate(id, sent)
  \/ \E id \in IdInputs : admin_preview(id)

\* The response is sent and the request context torn down.
Respond ==
  /\ ~Idle
  /\ last' = NoRequest
  /\ UNCHANGED <<posts, nextId, settings, started, session, now, ticks, writes, pending, exporter, outdir>>

Next == InitDb \/ Tick \/ Request \/ Respond

Spec == Init /\ [][Next]_vars

\* The state of a started application whose administrator has loaded the
\* login page and logged in at time 0.
InitLoggedIn ==
  /\ posts = seed_posts(EmptyTable, 1, 0)
  /\ nextId = 1 + SeedCount
  /\ settings = DefaultSettings
  /\ started = TRUE
  /\ session = [ auth |-> TRUE, token |-> "tokA", ts |-> 0 ]
  /\ now = 0
  /\ ticks = 0
  /\ writes = 0
  /\ pending = [ w \in Workers |-> NoPending ]
  /\ last = NoRequest
  /\ exporter = NoExport
  /\ outdir = {}

\* The tokens an administrator's form carries: the session's, or none.
AdminTokens == {"tokA", NoneTok}

NextConc ==
  \/ InitDb
  \/ \E w \in Workers, id \in IdInputs, form \in Forms, sent \in AdminTokens :
       save_lookup(w, id, form, sent)
  \/ \E w \in Workers : save_write(w)
  \/ \E w \in Workers, id \in IdInputs, sent \in AdminTokens : duplicate_lookup(w, id, sent)
  \/ \E w \in Workers : duplicate_write(w)
  \/ \E id \in IdInputs, sent \in AdminTokens : admin_delete(id, sent)
  \/ Respond

SpecConc == InitLoggedIn /\ [][NextConc]_vars
(* ----------------------------- properties ----------------------------- *)

\* The admin routes that write to the posts table, all reached by POST.
MutatingAdminRoutes == {"admin_new", "admin_edit", "admin_delete", "admin_duplicate"}

\* Every route under /admin except the login route.
GuardedAdminRoutes ==
  MutatingAdminRoutes \cup {"admin_logout", "admin_dashboard", "admin_preview"}

\* The response csrf_protect() aborts a request with.
CsrfRejected(resp) ==
  resp.status = 400 /\ resp.flash = "error:Your session expired. Please try again."

\* The response login_required sends instead of the view's.
RedirectedToLogin(resp) ==
  resp.status = 302 /\ resp.loc = "admin_login"

\* A POST to one of the routes that write to the posts table.
MutatingPost(id, form, sent) ==
  \/ last'.route = "admin_new" /\ id = 0 /\ admin_new_post(form, sent)
  \/ last'.route = "admin_edit" /\ last'.id = id /\ admin_edit_post(id, form, sent)
  \/ last'.route = "admin_delete" /\ last'.id = id /\ admin_delete(id, sent)
  \/ last'.route = "admin_duplicate" /\ admin_duplicate(id, sent)

\* C1: at every moment no two rows of the posts table with different ids
\* have the same slug, whatever seeding, creations, edits, duplications
\* and deletions came before, interleaved requests included.
C1_SlugsUnique ==
  \A i, j \in DOMAIN posts : i # j => posts[i].slug # posts[j].slug

\* A write that passed its slug lookup was refused by the table, after
\* another request had inserted a row.
C1_Witness ==
  /\ last.status = 500
  /\ Cardinality(DOMAIN posts) > SeedCount

\* C2: a save with the required fields and a valid token whose resolved
\* slug is the slug of a different post is sent back to the form with
\* "Slug already in use." and changes no row; an edit whose resolved slug
\* is the edited post's own slug is accepted and its values are stored.
C2_SaveCollision ==
  [][ \A id \in IdInputs, form \in Forms, sent \in FormTokens :
        LET v == SaveValues(form, posts, id, now)
        IN  ( /\ last'.route = (IF id = 0 THEN "admin_new" ELSE "admin_edit")
              /\ last'.method = "POST"
              /\ id # 0 => last'.id = id
              /\ session.auth
              /\ ~NoToken(sent) /\ sent = session.token
              /\ now - session.ts <= CSRF_TTL_SECONDS
              /\ (id = 0 \/ id \in DOMAIN posts)
              /\ v.title # <<>> /\ v.excerpt # <<>> /\ v.content # <<>> /\ v.slug # <<>>
              /\ IF id = 0 THEN admin_new_post(form, sent) ELSE admin_edit_post(id, form, sent) )
            => /\ (\E j \in DOMAIN posts : j # id /\ posts[j].slug = v.slug)
                    => /\ posts' = posts
                       /\ last'.status = 302 /\ last'.loc = "self"
                       /\ last'.flash = "error:Slug already in use."
               /\ (id # 0 /\ posts[id].slug = v.slug)
                    => /\ last'.status = 302 /\ last'.loc \in {"admin_edit", "admin_preview"}
                       /\ last'.flash = "success:Post updated."
                       /\ \A f \in DOMAIN v : posts'[id][f] = v[f]
                       /\ \A i \in DOMAIN posts \ {id} : posts'[i] = posts[i]
    ]_vars

\* The first seed post was edited under its own slug, the only write so
\* far, and a new post under that slug has just been refused.
C2_Witness ==
  /\ writes = 1
  /\ 1 \in DOMAIN posts
  /\ posts[1].title = <<"T","2">>
  /\ posts[1].slug = AllSeedPosts[1].slug
  /\ last.route = "admin_new"
  /\ last.flash = "error:Slug already in use."

\* C3: a POST to a mutating admin route whose form token is missing,
\* empty, different from the session's, or older than the lifetime, is
\* answered 400 and leaves the posts table as it was, whether or not the
\* session is authenticated.
C3_CsrfRejects ==
  [][ \A id \in IdInputs, form \in Forms, sent \in FormTokens :
        ( /\ last'.route \in MutatingAdminRoutes
          /\ last'.method = "POST"
          /\ ~( /\ ~NoToken(sent) /\ sent = session.token
                /\ now - session.ts <= CSRF_TTL_SECONDS )
          /\ MutatingPost(id, form, sent) )
        => /\ last'.status = 400
           /\ posts' = posts
    ]_vars

\* An authenticated session whose token has outlived its lifetime asked
\* to delete a stored post and got the 400 response.
C3_Witness ==
  /\ session.auth
  /\ ~NoToken(session.token)
  /\ now - session.ts > CSRF_TTL_SECONDS
  /\ last.route = "admin_delete"
  /\ last.id \in DOMAIN posts
  /\ CsrfRejected(last)

\* Any POST the application serves, with the form token `sent`.
AnyPost(sent) ==
  \/ last'.route = "contact"
       /\ \E honeypot \in {<<>>, <<"x">>} : contact_post(sent, honeypot)
  \/ last'.route = "admin_login"
       /\ \E password \in Passwords : admin_login_post(password, sent)
  \/ last'.route \in MutatingAdminRoutes
       /\ \E id \in IdInputs, form \in Forms : MutatingPost(id, form, sent)

\* C4: the CSRF validation of a POST, PUT or DELETE request succeeds
\* exactly when the form token is non-empty, the session holds a token,
\* the two are equal and the session token is at most 3600 seconds old
\* (3600 accepted, 3601 refused); a GET request is never refused.
C4_CsrfValidation ==
  [][ /\ \A method \in {"GET", "POST", "PUT", "DELETE"}, sent \in FormTokens :
           csrf_protect(method, session, sent, now)
             <=> \/ method = "GET"
                 \/ /\ sent \notin {NoneTok, ""}
                    /\ session.token \notin {NoneTok, ""}
                    /\ sent = session.token
                    /\ now - session.ts <= 3600
      /\ last'.method = "GET" => ~CsrfRejected(last')
      /\ \A sent \in FormTokens :
           (last'.method = "POST" /\ AnyPost(sent))
           => ( CsrfRejected(last')
                  <=> ~( /\ sent \notin {NoneTok, ""}
                         /\ session.token \notin {NoneTok, ""}
                         /\ sent = session.token
                         /\ now - session.ts <= 3600 ) )
    ]_vars

\* A POST was let through with a session token exactly 3600 seconds old.
C4_Witness ==
  /\ last.method = "POST"
  /\ last.status = 302
  /\ ~NoToken(session.token)
  /\ now - session.ts = 3600

\* C5: once the session holds a token, no request replaces the token or
\* its timestamp, and the token validates on every submission while its
\* age is within the lifetime.
C5_TokenKept ==
  [][ /\ ~NoToken(session.token)
           => /\ session'.token = session.token
              /\ session'.ts = session.ts
      /\ (~NoToken(session.token) /\ now - session.ts <= CSRF_TTL_SECONDS)
           => validate_csrf_token(session, session.token, now)
    ]_vars

\* After two writes under the session's token, a further submission to a
\* mutating route was let through with the token as old as it may be.
C5_Witness ==
  /\ writes >= 2
  /\ last.route \in MutatingAdminRoutes
  /\ last.status = 302
  /\ last.loc # "admin_login"
  /\ now - session.ts = CSRF_TTL_SECONDS

\* C6 as stated: every request of an unauthenticated session to an admin
\* route other than the login route is redirected to the login route and
\* leaves the posts table as it was.
C6_AlwaysRedirected ==
  [][ (last'.route \in GuardedAdminRoutes /\ ~session.auth)
      => /\ RedirectedToLogin(last')
         /\ posts' = posts
    ]_vars

\* C6: a request of an unauthenticated session to an admin route other
\* than the login route leaves the posts table as it was; a GET, and a
\* POST with a valid token, is redirected to the login route, and a POST
\* without a valid token gets the 400 response of the CSRF check.
C6_RedirectedOrRejected ==
  [][ (last'.route \in GuardedAdminRoutes /\ ~session.auth)
      => /\ posts' = posts
         /\ last'.method = "GET" => RedirectedToLogin(last')
         /\ \A id \in IdInputs, form \in Forms, sent \in FormTokens :
              (last'.method = "POST" /\ MutatingPost(id, form, sent))
              => IF /\ ~NoToken(sent) /\ sent = session.token
                    /\ now - session.ts <= CSRF_TTL_SECONDS
                 THEN RedirectedToLogin(last')
                 ELSE CsrfRejected(last')
    ]_vars

\* An unauthenticated session asked, with its valid token, to delete a
\* stored post and was redirected to the login route.
C6_Witness ==
  /\ ~session.auth
  /\ last.route = "admin_delete"
  /\ last.id \in DOMAIN posts
  /\ RedirectedToLogin(last)

\* C7: the post detail route answers 404 for a stored post with
\* published = 0 when the session is not authenticated, and 200 when it
\* is; a post with published = 1 gets 200 either way.
C7_DraftVisibility ==
  [][ \A slug \in SlugInputs :
        (last'.route = "post_detail" /\ post_detail(slug))
        => \A i \in DOMAIN posts :
             posts[i].slug = slug
             => last'.status = IF posts[i].published = 1 THEN 200
                               ELSE IF session.auth THEN 200 ELSE 404
    ]_vars

\* An unauthenticated session asked for a stored draft and got 404.
C7_Witness ==
  /\ ~session.auth
  /\ last.route = "post_detail"
  /\ last.status = 404
  /\ last.id \in DOMAIN posts
  /\ posts[last.id].published = 0

\* C8: the copy of a post with slug s gets the first of s-copy, s-copy-2,
\* s-copy-3, ... that no row of the table has: s-copy-2 when s-copy is
\* taken and s-copy-2 is not.  The search ends and the copy is inserted.
C8_CopySlug ==
  [][ \A id \in DOMAIN posts, sent \in FormTokens :
        ( /\ last'.route = "admin_duplicate"
          /\ session.auth
          /\ ~CsrfRejected(last')
          /\ admin_duplicate(id, sent) )
        => LET s       == posts[id].slug
               used    == { posts[i].slug : i \in DOMAIN posts }
               Cand(k) == IF k = 1 THEN s \o <<"-","c","o","p","y">>
                          ELSE s \o <<"-","c","o","p","y","-">> \o IntToStr(k)
           IN  /\ last'.status = 302
               /\ last'.id \in DOMAIN posts' \ DOMAIN posts
               /\ \E k \in 1..(Cardinality(DOMAIN posts) + 1) :
                    /\ posts'[last'.id].slug = Cand(k)
                    /\ Cand(k) \notin used
                    /\ \A j \in 1..(k - 1) : Cand(j) \in used
    ]_vars

\* A post was copied twice: the second copy has the slug s-copy-2.
C8_Witness ==
  /\ last.route = "admin_duplicate"
  /\ last.id \in DOMAIN posts
  /\ \E i, j \in DOMAIN posts :
       /\ posts[j].slug = posts[i].slug \o <<"-","c","o","p","y">>
       /\ posts[last.id].slug = posts[i].slug \o <<"-","c","o","p","y","-","2">>

\* C9 as stated: the copy equals its source in every column except id,
\* slug, published and featured, and has published = 0 and featured = 0.
C9_CopyEqualsSource ==
  [][ \A id \in DOMAIN posts, sent \in FormTokens :
        ( /\ last'.route = "admin_duplicate"
          /\ last'.status = 302 /\ last'.loc = "admin_edit"
          /\ admin_duplicate(id, sent) )
        => /\ \A f \in DOMAIN posts[id] \ {"id", "slug", "published", "featured"} :
                posts'[last'.id][f] = posts[id][f]
           /\ posts'[last'.id].published = 0
           /\ posts'[last'.id].featured = 0
    ]_vars

\* C9: the copy has published = 0 and featured = 0, the source's title
\* followed by " (Copy)", the time of the duplication as created_at and
\* updated_at, the source's hero_style normalised (trimmed and in lower
\* case when that is light, slate or midnight, else light), the source's
\* publish_date or, when that is empty, the time of the duplication, and
\* equals the source in every other column except id and slug.
C9_CopyOfSource ==
  [][ \A id \in DOMAIN posts, sent \in FormTokens :
        ( /\ last'.route = "admin_duplicate"
          /\ last'.status = 302 /\ last'.loc = "admin_edit"
          /\ admin_duplicate(id, sent) )
        => LET src  == posts[id]
               copy == posts'[last'.id]
               style == IF src.hero_style = NULL THEN <<>> ELSE Lower(Strip(src.hero_style))
           IN  /\ \A f \in DOMAIN src \ {"id", "slug", "published", "featured", "title",
                                         "created_at", "updated_at", "hero_style", "publish_date"} :
                    copy[f] = src[f]
               /\ copy.published = 0
               /\ copy.featured = 0
               /\ copy.title = src.title \o <<" ","(","C","o","p","y",")">>
               /\ copy.created_at = IsoFormat(now)
               /\ copy.updated_at = IsoFormat(now)
               /\ copy.hero_style = IF style \in {HeroLight, HeroSlate, HeroMidnight}
                                    THEN style ELSE HeroLight
               /\ copy.publish_date = IF src.publish_date \in {NULL, <<>>}
                                      THEN IsoFormat(now) ELSE src.publish_date
    ]_vars

\* The copy of a post with no hero_style was made some time after its
\* source was written: it is not featured and its style is light.
C9_Witness ==
  /\ last.route = "admin_duplicate"
  /\ last.id \in DOMAIN posts
  /\ \E i \in DOMAIN posts :
       /\ posts[i].hero_style = NULL
       /\ posts[last.id].title = posts[i].title \o <<" ","(","C","o","p","y",")">>
       /\ posts[last.id].hero_style = HeroLight
       /\ posts[last.id].created_at # posts[i].created_at

\* C10: the sitemap has an entry for every post with published = 1, none
\* for a post with published = 0, and the four static routes /, /team,
\* /contact and /blog.
C10_Sitemap ==
  LET urls == sitemap(posts, now)
      locs == { urls[k].loc : k \in DOMAIN urls }
      base == settings.base_url
  IN  /\ \A i \in DOMAIN posts :
           (posts[i].published = 1)
             <=> (base \o <<"/","p","o","s","t","/">> \o posts[i].slug \in locs)
      /\ \A p \in { <<"/">>, <<"/","t","e","a","m">>, <<"/","c","o","n","t","a","c","t">>,
                    <<"/","b","l","o","g">> } : base \o p \in locs
      /\ Len(urls) = 4 + Cardinality({ i \in DOMAIN posts : posts[i].published = 1 })

\* The sitemap was served from a table with a published post and a draft.
C10_Witness ==
  /\ last.route = "sitemap"
  /\ \E i, j \in DOMAIN posts : posts[i].published = 1 /\ posts[j].published = 0

\* C15: whatever was seeded, created, edited, duplicated and deleted, every
\* post with published = 1 has a title, an excerpt and a content that are
\* not empty and not whitespace only.
C15_PublishedComplete ==
  \A i \in DOMAIN posts :
    posts[i].published = 1
    => \A f \in {"title", "excerpt", "content"} :
         posts[i][f] # NULL /\ Strip(posts[i][f]) # <<>>

\* A post made in the editor is published, and a save with a
\* whitespace-only excerpt has just been sent back.
C15_Witness ==
  /\ last.flash = "error:Title, excerpt, and content are required."
  /\ \E i \in DOMAIN posts : i > SeedCount /\ posts[i].published = 1

\* C16: every stored hero_style is NULL or one of light, slate, midnight;
\* serialize_post hands every stored post on with one of the three, light
\* when the column is NULL; and normalize_hero_style maps an absent, empty
\* or unknown value to light and every other value to one of the three.
C16_HeroStyles ==
  LET allowed == { <<"l","i","g","h","t">>, <<"s","l","a","t","e">>,
                   <<"m","i","d","n","i","g","h","t">> }
  IN  /\ \A i \in DOMAIN posts :
           /\ posts[i].hero_style \in {NULL} \cup allowed
           /\ serialize_post(posts[i]).hero_style \in allowed
           /\ posts[i].hero_style = NULL
                => serialize_post(posts[i]).hero_style = <<"l","i","g","h","t">>
      /\ \A v \in {NULL, <<>>, <<"n","e","o","n">>, <<" "," ">>} :
           normalize_hero_style(v) = <<"l","i","g","h","t">>
      /\ \A form \in Forms : normalize_hero_style(form.hero_style) \in allowed

\* The table holds a post with no hero_style and a post saved from the
\* form that asked for the style "neon", stored as light.
C16_Witness ==
  \E i, j \in DOMAIN posts :
    /\ posts[i].hero_style = NULL
    /\ posts[j].title = Strip(FormPreview.title)
    /\ posts[j].hero_style = HeroLight

\* C17: the post page for a slug no post has, and admin edit (GET and
\* POST), duplicate and preview for an id no post has, asked by an
\* authenticated session with a valid token where it is a POST, answer
\* 404 and leave the posts table as it was.
C17_NotFound ==
  [][ /\ \A slug \in SlugInputs :
           ( /\ last'.route = "post_detail"
             /\ \A i \in DOMAIN posts : posts[i].slug # slug
             /\ post_detail(slug) )
           => last'.status = 404 /\ posts' = posts
      /\ \A id \in IdInputs, form \in Forms, sent \in FormTokens :
           ( /\ last'.route \in {"admin_edit", "admin_duplicate", "admin_preview"}
             /\ last'.id = id
             /\ id \notin DOMAIN posts
             /\ session.auth
             /\ \/ admin_edit_get(id)
                \/ admin_preview(id)
                \/ /\ ~NoToken(sent) /\ sent = session.token
                   /\ now - session.ts <= CSRF_TTL_SECONDS
                   /\ admin_edit_post(id, form, sent) \/ admin_duplicate(id, sent) )
           => last'.status = 404 /\ posts' = posts
    ]_vars

\* An authenticated session asked to duplicate a post that was deleted
\* and got 404.
C17_Witness ==
  /\ session.auth
  /\ last.route = "admin_duplicate"
  /\ last.status = 404
  /\ last.id # 0
  /\ last.id \notin DOMAIN posts

\* C18: an authenticated delete with a valid token answers 404 and leaves
\* the table as it was when no post has the id, and removes exactly the
\* row with the id when there is one.
C18_DeleteMissing ==
  [][ \A id \in IdInputs, sent \in FormTokens :
        ( /\ last'.route = "admin_delete"
          /\ last'.id = id
          /\ session.auth
          /\ ~NoToken(sent) /\ sent = session.token
          /\ now - session.ts <= CSRF_TTL_SECONDS
          /\ admin_delete(id, sent) )
        => IF id \notin DOMAIN posts
           THEN last'.status = 404 /\ posts' = posts
           ELSE /\ DOMAIN posts' = DOMAIN posts \ {id}
                /\ \A i \in DOMAIN posts' : posts'[i] = posts[i]
    ]_vars

\* C20: the authenticated flag is set only by a POST to the login route
\* with the configured password and a valid token; a POST with another
\* password leaves the flag as it was; only the logout route clears it,
\* and it always does.
C20_AuthFlag ==
  [][ /\ (~session.auth /\ session'.auth)
           => /\ last'.route = "admin_login"
              /\ last'.method = "POST"
              /\ \E sent \in FormTokens : admin_login_post("researchadmin", sent)
      /\ \A password \in Passwords, sent \in FormTokens :
           ( /\ last'.route = "admin_login"
             /\ last'.method = "POST"
             /\ admin_login_post(password, sent) )
           => IF /\ password = "researchadmin"
                 /\ ~NoToken(sent) /\ sent = session.token
                 /\ now - session.ts <= CSRF_TTL_SECONDS
              THEN session'.auth
              ELSE session'.auth = session.auth
      /\ (session.auth /\ ~session'.auth) => last'.route = "admin_logout"
      /\ last'.route = "admin_logout" => ~session'.auth
    ]_vars

\* An authenticated session posted to the login route again, was sent on
\* to the dashboard and is still authenticated.
C20_Witness ==
  /\ session.auth
  /\ last.route = "admin_login"
  /\ last.method = "POST"
  /\ last.status = 302
  /\ last.flash = ""

(* ------------------------- slug inputs to a save ----------------------- *)

\* One character of each kind slugify() tells apart: a letter (typed in
\* upper case), a digit, a blank, an underscore, a hyphen, and a character
\* it deletes.
SlugAlphabet == {"A", "1", " ", "_", "-", "!"}

\* The texts of at most MaxSlugLen characters typed as a slug input.
SlugTexts == UNION { [1..n -> SlugAlphabet] : n \in 0..MaxSlugLen }

\* The texts typed as a title: the shorter ones.
TitleTexts == { text \in SlugTexts : Len(text) < MaxSlugLen }

\* slugify() of every typed text.
SlugOf == [ text \in SlugTexts |-> slugify(text) ]

\* The typed texts that are not blank and that slugify() leaves nothing of.
EmptySlugTexts == { text \in SlugTexts : Strip(text) # <<>> /\ SlugOf[text] = <<>> }

\* request.form of a draft with `text` as its slug input, or as its title
\* with the slug input left empty.
SlugForm(text, asTitle) ==
  IF asTitle THEN [ FormSeedSlug EXCEPT !.title = text, !.slug = <<>> ]
  ELSE [ FormSeedSlug EXCEPT !.slug = text ]

\* The administrator saves new drafts under typed slugs and titles, and
\* duplicates posts.
NextSlug ==
  \/ \E text \in SlugTexts : admin_new_post(SlugForm(text, FALSE), session.token)
  \/ \E text \in TitleTexts : admin_new_post(SlugForm(text, TRUE), session.token)
  \/ \E id \in IdInputs : admin_duplicate(id, session.token)
  \/ Respond

SpecSlug == InitLoggedIn /\ [][NextSlug]_vars

\* A slug of lower-case letters, digits and single hyphens that neither
\* starts nor ends with a hyphen.
UrlSafe(slug) ==
  /\ slug # <<>>
  /\ \A k \in DOMAIN slug :
       slug[k] \in Range(LowerChars) \cup Range(DigitChars) \cup {"-"}
  /\ slug[1] # "-"
  /\ slug[Len(slug)] # "-"
  /\ \A k \in 1..(Len(slug) - 1) : ~(slug[k] = "-" /\ slug[k + 1] = "-")

\* slugify() of every typed text is empty or URL-safe.
SlugifyUrlSafe == \A text \in SlugTexts : SlugOf[text] = <<>> \/ UrlSafe(SlugOf[text])

TwoDigits(k) == IF k < 10 THEN <<"0">> \o IntToStr(k) ELSE IntToStr(k)

\* A publish_date input: the d-th day (from 0) of a year of 28-day months.
DateText(year, d) ==
  year \o <<"-">> \o TwoDigits(1 + (d \div 28)) \o <<"-">> \o TwoDigits(1 + (d % 28))

\* The publish_date typed for the k-th of n notes: after the seeds' dates
\* and one day later per note, or before them and one day earlier per
\* note; when `tied`, the last note repeats the date of the one before.
NoteDate(k, n, rising, tied) ==
  LET day == IF tied /\ k = n /\ n > 1 THEN k - 1 ELSE k
  IN  IF rising THEN DateText(<<"2","0","2","5">>, day)
      ELSE DateText(<<"2","0","2","3">>, MaxNotes + 1 - day)

\* The editor's form of the k-th note: saved as a draft when k is a
\* multiple of draftEvery, published otherwise.
NoteForm(k, n, draftEvery, rising, tied) ==
  [ EmptyForm EXCEPT
      !.title = <<"N","o","t","e"," ">> \o IntToStr(k), !.excerpt = <<"e">> \o IntToStr(k),
      !.content = <<"c">>, !.publish_date = NoteDate(k, n, rising, tied),
      !.action = IF draftEvery # 0 /\ k % draftEvery = 0 THEN "draft" ELSE "publish" ]

\* The seeded table after the first k of n notes were saved through
\* /admin/new at time 0.
RECURSIVE NotesTable(_, _, _, _, _)
NotesTable(k, n, draftEvery, rising, tied) ==
  IF k = 0 THEN seed_posts(EmptyTable, 1, 0)
  ELSE LET tbl  == NotesTable(k - 1, n, draftEvery, rising, tied)
           form == NoteForm(k, n, draftEvery, rising, tied)
       IN  IF SaveVerdict(form, tbl, 0, 0) = "ok"
           THEN InsertRow(tbl, SeedCount + k, InsertValues(SaveValues(form, tbl, 0, 0)))
           ELSE tbl

\* A started application whose editor has saved up to MaxNotes notes.
InitFeed ==
  /\ \E n \in 0..MaxNotes, draftEvery \in {0, 2, 3}, rising \in BOOLEAN, tied \in BOOLEAN :
       /\ posts = NotesTable(n, n, draftEvery, rising, tied)
       /\ nextId = 1 + SeedCount + n
  /\ settings = DefaultSettings
  /\ started = TRUE
  /\ session = EmptySession
  /\ now = 0
  /\ ticks = 0
  /\ writes = 0
  /\ pending = [ w \in Workers |-> NoPending ]
  /\ last = NoRequest
  /\ exporter = NoExport
  /\ outdir = {}

NextFeed ==
  \/ rss_feed
  \/ \E page \in PageInputs : blog_index(page)
  \/ Respond

SpecFeed == InitFeed /\ [][NextFeed]_vars

\* The posts the feed being answered has an item for.
FeedShown == { i \in DOMAIN posts : \E k \in DOMAIN last.body : last.body[k].link = PostUrl(posts[i].slug) }

\* C11 as stated: whatever the number of published posts, the RSS feed
\* has an item for every post with published = 1 and no item for a post
\* with published = 0.
C11_FeedComplete ==
  last.route = "rss_feed"
    => \A i \in DOMAIN posts : (posts[i].published = 1) <=> (i \in FeedShown)

\* C11: the RSS feed has one item for every post with published = 1 when
\* there are at most 15 of them and otherwise for 15 of them, none of
\* which is older by COALESCE(publish_date, created_at) than a published
\* post left out, and no item for a post with published = 0.
C11_FeedNewest ==
  last.route = "rss_feed"
    => LET pub == { i \in DOMAIN posts : posts[i].published = 1 }
           key(i) == IF posts[i].publish_date # NULL THEN posts[i].publish_date
                     ELSE posts[i].created_at
       IN  /\ FeedShown \subseteq pub
           /\ Len(last.body) = Cardinality(FeedShown)
           /\ \A k \in DOMAIN last.body :
                \E i \in FeedShown : last.body[k].link = PostUrl(posts[i].slug)
           /\ Cardinality(FeedShown) = IF Cardinality(pub) < 15 THEN Cardinality(pub) ELSE 15
           /\ \A i \in pub \ FeedShown, j \in FeedShown : ~TextLess(key(j), key(i))

\* The feed was served from a table with more than 15 published posts
\* and a draft: it has 15 items.
C11_Witness ==
  /\ last.route = "rss_feed"
  /\ Cardinality({ i \in DOMAIN posts : posts[i].published = 1 }) > 15
  /\ \E i \in DOMAIN posts : posts[i].published = 0
  /\ Len(last.body) = 15

\* C12: with N published posts, GET /blog?page=p answers 200 with exactly
\* min(10, max(0, N - 10 * (q - 1))) posts, q = max(1, p), each of them a
\* different published post; a page past the last one lists nothing.
C12_Pagination ==
  [][ \A page \in PageInputs :
        (last'.route = "blog_index" /\ blog_index(page))
          => LET N    == Cardinality({ i \in DOMAIN posts : posts[i].published = 1 })
                 q    == IF page < 1 THEN 1 ELSE page
                 rest == N - 10 * (q - 1)
                 want == IF rest < 0 THEN 0 ELSE IF rest < 10 THEN rest ELSE 10
                 list == last'.body.posts
             IN  /\ last'.status = 200
                 /\ Len(list) = want
                 /\ \A k \in DOMAIN list :
                      /\ list[k].id \in DOMAIN posts
                      /\ posts[list[k].id].published = 1
                      /\ \A m \in DOMAIN list : list[m].id = list[k].id => m = k ]_vars

\* Page 3 of a blog with 15 published posts was answered with an empty list.
C12_Witness ==
  /\ last.route = "blog_index"
  /\ last.status = 200
  /\ Cardinality({ i \in DOMAIN posts : posts[i].published = 1 }) = 15
  /\ last.body.page = 3
  /\ last.body.posts = <<>>

(* --------------------------- static exporter -------------------------- *)

\* s.startswith(prefix)
StartsWith(s, prefix) == Len(s) >= Len(prefix) /\ SubSeq(s, 1, Len(prefix)) = prefix

\* s.endswith(suffix)
EndsWith(s, suffix) ==
  Len(s) >= Len(suffix) /\ SubSeq(s, Len(s) - Len(suffix) + 1, Len(s)) = suffix

\* The routes export_routes() always requests, in its order.
FixedRoutes ==
  << <<"/">>, <<"/","b","l","o","g">>, <<"/","t","e","a","m">>, <<"/","c","o","n","t","a","c","t">>,
     <<"/","a","d","m","i","n","-","u","n","a","v","a","i","l","a","b","l","e","/">>,
     <<"/","r","s","s",".","x","m","l">>, <<"/","s","i","t","e","m","a","p",".","x","m","l">>,
     <<"/","r","o","b","o","t","s",".","t","x","t">> >>

\* page_size of export_routes().
PageSize == 10

\* f"/blog/page/{page}/"
BlogPageRoute(page) == <<"/","b","l","o","g","/","p","a","g","e","/">> \o IntToStr(page) \o <<"/">>

\* The routes list export_routes() builds from the published slugs.
ExportRoutes(post_slugs) ==
  LET total_pages == (Len(post_slugs) + PageSize - 1) \div PageSize
  IN  FixedRoutes
      \o [ k \in 1..(total_pages - 1) |-> BlogPageRoute(k + 1) ]
      \o [ k \in 1..Len(post_slugs) |-> PostPath \o post_slugs[k] ]

\* The status client.get(route) gets from the application for a path the
\* exporter builds: the fixed routes have a view that answers 200,
\* /post/<slug> is post_detail() for a client that is not logged in, and
\* no URL rule matches anything else.
client_get(tbl, route) ==
  IF route \in Range(FixedRoutes) THEN 200
  ELSE IF /\ StartsWith(route, PostPath)
          /\ Len(route) > Len(PostPath)
          /\ "/" \notin Range(SubSeq(route, Len(PostPath) + 1, Len(route)))
       THEN LET slug == SubSeq(route, Len(PostPath) + 1, Len(route))
            IN  IF \E i \in RowsBySlug(tbl, slug) : tbl[i].published = 1 THEN 200 ELSE 404
       ELSE 404

\* if response.status_code >= 400: raise RuntimeError(...)
FailsExport_ServerErrors(status) == status >= 500

FailsExport(status) == status >= 400

\* The target export_routes() hands to write_response().
ExportTarget(route) ==
  IF StartsWith(route, PostPath) THEN route \o <<"/">>
  ELSE IF EndsWith(route, <<".","x","m","l">>) \/ EndsWith(route, <<".","t","x","t">>) THEN route
  ELSE IF EndsWith(route, <<"/">>) THEN route
  ELSE route \o <<"/">>

\* write_response(): the file written, relative to OUTPUT_DIR.
Destination(path) ==
  LET rel == LStrip(path, {"/"})
      dir == RStrip(rel, {"/"})
  IN  IF EndsWith(path, <<"/">>) /\ ~EndsWith(path, <<"/","/">>)
      THEN IF dir = <<>> THEN <<"i","n","d","e","x",".","h","t","m","l">>
           ELSE dir \o <<"/","i","n","d","e","x",".","h","t","m","l">>
      ELSE rel

\* The tree shutil.copytree() creates.
StaticTree == <<"s","t","a","t","i","c">>

HeadersFile == <<"_","h","e","a","d","e","r","s">>

\* export_routes() up to the loop: create_app() (with its init_db()),
\* clean_output_dir(), the copy of static/ and the routes list.
export_start ==
  /\ exporter.pc # "running"
  /\ posts' = seed_posts(posts, nextId, now)
  /\ nextId' = IF Cardinality(DOMAIN posts) = 0 THEN nextId + SeedCount ELSE nextId
  /\ settings' = IF settings = NoSettings THEN DefaultSettings ELSE settings
  /\ \E order \in NewestFirst(posts', PublishedRows(posts')) :
       exporter' = [ pc        |-> "running",
                     routes    |-> ExportRoutes([ k \in DOMAIN order |-> posts'[order[k]].slug ]),
                     requested |-> <<>> ]
  /\ outdir' = {StaticTree}
  /\ UNCHANGED <<started, session, now, ticks, writes, pending, last>>

\* One pass of the loop over routes: the request, then the raise or the
\* write.
export_route ==
  /\ exporter.pc = "running"
  /\ Len(exporter.requested) < Len(exporter.routes)
  /\ LET route  == exporter.routes[Len(exporter.requested) + 1]
         status == client_get(posts, route)
     IN  /\ exporter' = [ exporter EXCEPT
                            !.requested = Append(@, route),
                            !.pc = IF FailsExport(status) THEN "failed" ELSE @ ]
         /\ outdir' = IF FailsExport(status) THEN outdir
                      ELSE outdir \cup {Destination(ExportTarget(route))}
  /\ UNCHANGED <<posts, nextId, settings, started, session, now, ticks, writes, pending, last>>

\* After the loop: the _headers file.
export_finish ==
  /\ exporter.pc = "running"
  /\ Len(exporter.requested) = Len(exporter.routes)
  /\ exporter' = [ exporter EXCEPT !.pc = "done" ]
  /\ outdir' = outdir \cup {HeadersFile}
  /\ UNCHANGED <<posts, nextId, settings, started, session, now, ticks, writes, pending, last>>

\* A started application whose administrator is logged in and has saved
\* up to MaxExportNotes notes, every third one as a draft or none; no
\* export has run.
InitExport ==
  /\ \E n \in 0..MaxExportNotes, draftEvery \in {0, 3} :
       /\ posts = NotesTable(n, n, draftEvery, TRUE, FALSE)
       /\ nextId = 1 + SeedCount + n
  /\ settings = DefaultSettings
  /\ started = TRUE
  /\ session = [ auth |-> TRUE, token |-> "tokA", ts |-> 0 ]
  /\ now = 0
  /\ ticks = 0
  /\ writes = 0
  /\ pending = [ w \in Workers |-> NoPending ]
  /\ last = NoRequest
  /\ exporter = NoExport
  /\ outdir = {}

\* The exporter runs while the administrator deletes posts.
NextExport ==
  \/ export_start
  \/ export_route
  \/ export_finish
  \/ \E id \in DOMAIN posts : admin_delete(id, session.token)
  \/ Respond

SpecExport == InitExport /\ [][NextExport]_vars

\* C13: the exporter requests its routes in the order of the list, one
\* per step; a response of 400 or above ends the run as failed with
\* nothing written for that route, any other response is written to its
\* file; a failed run requests and writes nothing more.
C13_StopsAtFirstFailure ==
  [][ /\ (exporter.pc = "running" /\ exporter'.requested # exporter.requested)
        => LET route == exporter.routes[Len(exporter.requested) + 1]
           IN  /\ exporter'.requested = Append(exporter.requested, route)
               /\ exporter'.routes = exporter.routes
               /\ IF client_get(posts, route) >= 400
                  THEN exporter'.pc = "failed" /\ outdir' = outdir
                  ELSE /\ exporter'.pc = "running"
                       /\ outdir' = outdir \cup {Destination(ExportTarget(route))}
      /\ exporter.pc = "failed"
        => \/ exporter' = exporter /\ outdir' = outdir
           \/ exporter'.pc = "running" /\ exporter'.requested = <<>>
      /\ exporter.pc = "done" => Len(exporter.requested) = Len(exporter.routes) ]_vars

\* A run failed at a route after others were requested and before the
\* last ones were.
C13_Witness ==
  /\ exporter.pc = "failed"
  /\ Len(exporter.requested) > 1
  /\ Len(exporter.requested) < Len(exporter.routes)

\* C14 as stated: when an export run has failed at a route, the output
\* directory holds no file written for a route of that run.
C14_NoPartialOutput ==
  exporter.pc = "failed"
    => \A k \in DOMAIN exporter.requested :
         Destination(ExportTarget(exporter.requested[k])) \notin outdir

(* ------------------------------- saves -------------------------------- *)

\* C21: a save (create or edit of a stored post) by the logged-in
\* administrator with a valid token that lacks a title, an excerpt or a
\* content, whose derived slug is empty, or whose slug is another post's,
\* is answered with a redirect back to the form and an error notice, and
\* leaves the posts table and the id counter as they were.
C21_RejectedSave ==
  [][ \A id \in IdInputs, form \in Forms, sent \in FormTokens :
        LET title == Strip(form.title)
            slug  == slugify(IF Strip(form.slug) # <<>> THEN Strip(form.slug) ELSE title)
        IN  ( /\ last'.route = (IF id = 0 THEN "admin_new" ELSE "admin_edit")
              /\ last'.method = "POST"
              /\ id # 0 => last'.id = id
              /\ session.auth
              /\ ~NoToken(sent) /\ sent = session.token
              /\ now - session.ts <= CSRF_TTL_SECONDS
              /\ (id = 0 \/ id \in DOMAIN posts)
              /\ \/ title = <<>> \/ Strip(form.excerpt) = <<>> \/ Strip(form.content) = <<>>
                 \/ slug = <<>>
                 \/ \E j \in DOMAIN posts : j # id /\ posts[j].slug = slug
              /\ IF id = 0 THEN admin_new_post(form, sent) ELSE admin_edit_post(id, form, sent) )
            => /\ posts' = posts
               /\ nextId' = nextId
               /\ last'.status = 302 /\ last'.loc = "self"
               /\ last'.flash \in { "error:Title, excerpt, and content are required.",
                                    "error:Unable to generate a slug. Please adjust the title.",
                                    "error:Slug already in use." }
    ]_vars

\* After a write, an edit without an excerpt was sent back to the form.
C21_Witness ==
  /\ writes = 1
  /\ last.route = "admin_edit"
  /\ last.id \in DOMAIN posts
  /\ last.flash = "error:Title, excerpt, and content are required."

\* C22: after every successful save (create or edit) the saved post's
\* published flag is 1 exactly when the submitted action is publish and
\* its featured flag is 1 exactly when the featured checkbox was
\* submitted, whatever the flags were before.
C22_FlagsFromForm ==
  [][ \A id \in IdInputs, form \in Forms, sent \in FormTokens :
        ( /\ last'.route = (IF id = 0 THEN "admin_new" ELSE "admin_edit")
          /\ last'.method = "POST"
          /\ last'.status = 302 /\ last'.loc \in {"admin_edit", "admin_preview"}
          /\ id # 0 => last'.id = id
          /\ IF id = 0 THEN admin_new_post(form, sent) ELSE admin_edit_post(id, form, sent) )
        => /\ last'.id \in DOMAIN posts'
           /\ posts'[last'.id].published = (IF form.action = "publish" THEN 1 ELSE 0)
           /\ posts'[last'.id].featured = (IF form.featured \in {NULL, <<>>} THEN 0 ELSE 1)
    ]_vars

\* A seed post, published, was saved as a draft or for a preview and is
\* no longer published.
C22_Witness ==
  /\ last.route = "admin_edit"
  /\ last.flash = "success:Post updated."
  /\ last.id \in 1..SeedCount
  /\ AllSeedPosts[last.id].published = 1
  /\ posts[last.id].published = 0
  /\ posts[last.id].featured = 0

\* C23 as stated: when the write of a save or a duplicate finds the slug
\* it looked up as free taken by another row, the slugs stay unique and
\* the request is answered with the "Slug already in use." notice.
C23_LoserGetsNotice ==
  [][ /\ \A i, j \in DOMAIN posts' : i # j => posts'[i].slug # posts'[j].slug
      /\ \A w \in Workers :
           ( /\ pending[w].kind \in {"save", "duplicate"}
             /\ pending'[w] = NoPending
             /\ LET slug == IF pending[w].kind = "save" THEN pending[w].v.slug
                            ELSE pending[w].row.slug
                    own  == IF pending[w].kind = "save" THEN pending[w].id ELSE 0
                IN  \E j \in DOMAIN posts : j # own /\ posts[j].slug = slug )
           => /\ posts' = posts
              /\ last'.status = 302
              /\ last'.flash = "error:Slug already in use."
    ]_vars

(* ------------------------------ start-up ------------------------------ *)

\* A started application whose logged-in administrator has deleted some
\* of the seed posts, all of them included.
InitPruned ==
  /\ \E kept \in SUBSET (1..SeedCount) :
       posts = [ i \in kept |-> seed_posts(EmptyTable, 1, 0)[i] ]
  /\ nextId = 1 + SeedCount
  /\ settings = DefaultSettings
  /\ started = TRUE
  /\ session = [ auth |-> TRUE, token |-> "tokA", ts |-> 0 ]
  /\ now = 0
  /\ ticks = 0
  /\ writes = 0
  /\ pending = [ w \in Workers |-> NoPending ]
  /\ last = NoRequest
  /\ exporter = NoExport
  /\ outdir = {}

\* The application is restarted between the administrator's writes.
NextRestart ==
  \/ InitDb
  \/ \E form \in Forms : admin_new_post(form, session.token)
  \/ \E id \in IdInputs : admin_delete(id, session.token)
  \/ Respond

SpecRestart == InitPruned /\ [][NextRestart]_vars

\* C24: init_db() on an initialized store inserts the seed posts, under
\* the next ids, when the posts table is empty at that time, and only
\* then; on a table with rows it leaves every row, the id counter and the
\* settings row as they are.
C24_InitIdempotent ==
  [][ InitDb
        => /\ settings # NoSettings => settings' = settings
           /\ IF DOMAIN posts = {}
              THEN /\ DOMAIN posts' = nextId..(nextId + SeedCount - 1)
                   /\ \A k \in 1..SeedCount :
                        \A f \in DOMAIN AllSeedPosts[k] :
                          posts'[nextId + k - 1][f] = AllSeedPosts[k][f]
              ELSE posts' = posts /\ nextId' = nextId
    ]_vars

\* The table was emptied and a restart has seeded it again, under new
\* ids, and a post was created since.
C24_Witness ==
  /\ (1 + SeedCount)..(2 * SeedCount) \subseteq DOMAIN posts
  /\ 1 \notin DOMAIN posts
  /\ Cardinality(DOMAIN posts) = SeedCount + 1

(* --------------------------- token lifetime --------------------------- *)

\* C25: once the session's token is more than 3600 seconds old, it stays
\* the session's token with its timestamp through every page, login
\* attempt and logout, and every POST, PUT or DELETE is rejected with 400,
\* whatever token it carries, and changes neither the posts table nor the
\* authenticated flag.
C25_ExpiredForGood ==
  [][ (session.token # "None" /\ now - session.ts > 3600)
        => /\ session'.token = session.token
           /\ session'.ts = session.ts
           /\ now' >= now
           /\ \A method \in {"POST", "PUT", "DELETE"}, sent \in FormTokens :
                ~csrf_protect(method, session, sent, now)
           /\ (last' # last /\ last'.method = "POST")
                => /\ last'.status = 400
                   /\ posts' = posts
                   /\ session'.auth = session.auth
    ]_vars

\* With the token expired, the administrator was logged out and the
\* login that followed was rejected.
C25_Witness ==
  /\ session.token # "None"
  /\ now - session.ts > 3600
  /\ ~session.auth
  /\ writes > 0
  /\ last.route = "admin_login"
  /\ last.method = "POST"
  /\ last.status = 400

(* ---------------------------- export routes --------------------------- *)

\* C26 as stated: every route of the list the exporter has just built,
\* the /blog/page/N/ routes of a blog with more than 10 published posts
\* included, is answered by the application with a status below 400.
C26_RoutesServed ==
  [][ (exporter.pc # "running" /\ exporter'.pc = "running")
        => \A k \in DOMAIN exporter'.routes :
             client_get(posts', exporter'.routes[k]) < 400
    ]_vars

(* ------------------------------- frames ------------------------------- *)

\* C27: a successful edit of post X leaves every other row as it was and
\* keeps X's id and created_at; a delete of X removes the row X and no
\* other; a duplicate adds exactly one row and leaves every existing row
\* as it was; none of them changes the settings row.
C27_WritesTouchTarget ==
  [][ /\ (last'.route = "admin_edit" /\ last'.flash = "success:Post updated.")
           => /\ DOMAIN posts' = DOMAIN posts
              /\ \A i \in DOMAIN posts \ {last'.id} : posts'[i] = posts[i]
              /\ posts'[last'.id].id = last'.id
              /\ posts'[last'.id].created_at = posts[last'.id].created_at
              /\ settings' = settings
      /\ (last'.route = "admin_delete" /\ last'.flash = "success:Post deleted.")
           => /\ DOMAIN posts' = DOMAIN posts \ {last'.id}
              /\ \A i \in DOMAIN posts' : posts'[i] = posts[i]
              /\ settings' = settings
      /\ (last'.route = "admin_duplicate" /\ last'.flash = "success:Draft copied.")
           => /\ DOMAIN posts \subseteq DOMAIN posts'
              /\ Cardinality(DOMAIN posts') = Cardinality(DOMAIN posts) + 1
              /\ \A i \in DOMAIN posts : posts'[i] = posts[i]
              /\ settings' = settings
    ]_vars

\* After a post was added, the first seed post was deleted and the other
\* seeds are as they were seeded.
C27_Witness ==
  /\ writes = 2
  /\ last.route = "admin_delete"
  /\ last.id = 1
  /\ DOMAIN posts = 2..(SeedCount + 1)
  /\ \A i \in 2..SeedCount : posts[i].slug = AllSeedPosts[i].slug

====
